---- MODULE Spec2Model ----
(***************************************************************************)
(* A model of the service-call analytics backend: the service_calls table, *)
(* the two filter-query builders (backend/utils/query_builder.py and       *)
(* backend/utils/query_tools.py), the KPI functions of query_tools.py, the *)
(* /calls/stats and /calls/filter endpoints of backend/api/routes/calls.py,*)
(* the lru_cache'd filter metadata and the two ETL entry points.           *)
(*                                                                         *)
(* Text is a tuple of one-character strings, so that lower(), strip() and  *)
(* startswith() are computed character by character.  An optional value is *)
(* NULL (the empty tuple) or Some(v) (a one-element tuple).  A timestamp is*)
(* a number of seconds; its calendar date is seconds \div 86400.           *)
(***************************************************************************)
EXTENDS Integers, Sequences, FiniteSets, TLC

VARIABLES
    store,   \* the service_calls table: a sequence of rows in rowid order
    df,      \* the DataFrame the dashboard holds (query_tools.fetch_filtered_calls)
    cache,   \* the lru_cache of get_filter_metadata: NULL or Some(metadata)
    out,     \* the outcome of the most recent operation
    txn      \* the write transaction of an ingestion run, NoTxn before any

vars == <<store, df, cache, out, txn>>

-----------------------------------------------------------------------------
(* Optional values and text                                                *)

NULL == <<>>
Some(v) == <<v>>
IsNull(x) == x = NULL
Val(x) == x[1]

LowerMap ==
    [A |-> "a", B |-> "b", C |-> "c", D |-> "d", E |-> "e", F |-> "f", G |-> "g",
     H |-> "h", I |-> "i", J |-> "j", K |-> "k", L |-> "l", M |-> "m", N |-> "n",
     O |-> "o", P |-> "p", Q |-> "q", R |-> "r", S |-> "s", T |-> "t", U |-> "u",
     V |-> "v", W |-> "w", X |-> "x", Y |-> "y", Z |-> "z"]

\* str.lower() / SQL LOWER(): upper-case ASCII letters are folded, the rest kept
str_lower(s) ==
    [i \in 1..Len(s) |-> IF s[i] \in DOMAIN LowerMap THEN LowerMap[s[i]] ELSE s[i]]

\* str.startswith(prefix) / SQL  x LIKE 'prefix%'
startswith(s, prefix) ==
    /\ Len(prefix) <= Len(s)
    /\ SubSeq(s, 1, Len(prefix)) = prefix

\* Series.fillna("") / SQL COALESCE(x, '')
fillna(x) == IF IsNull(x) THEN <<>> ELSE Val(x)

\* the number of positions of a sequence at which a mask is TRUE (Series.sum())
mask_sum(mask) == Cardinality({i \in DOMAIN mask : mask[i]})

-----------------------------------------------------------------------------
(* Rows of service_calls                                                   *)

BlankRow ==
    [call_id |-> 0,
     state |-> NULL, model |-> NULL, forward_employee_name |-> NULL,
     visited_engineer_name |-> NULL, nature_of_complaint |-> NULL,
     instrument_status |-> NULL, status |-> NULL, call_status |-> NULL,
     customer_name |-> NULL, customer_complaint |-> NULL,
     call_entry_datetime |-> NULL, call_solved_datetime |-> NULL]

\* a table whose i-th row has call_id i
Numbered(rows) == [i \in DOMAIN rows |-> [rows[i] EXCEPT !.call_id = i]]

\* all sequences over S of length 0..n
SeqsUpTo(S, n) == UNION {[1..k -> S] : k \in 0..n}

-----------------------------------------------------------------------------
(* Status taxonomy: query_tools.compute_kpis and calls.get_stats           *)

t_solved == <<"s","o","l","v","e","d">>
t_closed == <<"c","l","o","s","e","d">>
t_completed == <<"c","o","m","p","l","e","t","e","d">>
t_resolved == <<"r","e","s","o","l","v","e","d">>
t_pending == <<"p","e","n","d","i","n","g">>
t_processing == <<"p","r","o","c","e","s","s","i","n","g">>
t_unsolved == <<"u","n","s","o","l","v","e","d">>
t_open == <<"o","p","e","n">>
t_in_progress == <<"i","n"," ","p","r","o","g","r","e","s","s">>

CLOSED_TARGETS == {t_solved, t_closed, t_completed, t_resolved}
PENDING_TARGETS == {t_pending, t_processing, t_unsolved, t_open, t_in_progress}

\* status_match | call_status_match of _status_matches, for one row; the
\* call_status test is "starts with any of the targets"
status_matches_row(row, targets) ==
    LET targets_lower == {str_lower(t) : t \in targets}
        status_match == str_lower(fillna(row.status)) \in targets_lower
        call_status_match ==
            \E target \in targets_lower :
                startswith(str_lower(fillna(row.call_status)), target)
    IN  status_match \/ call_status_match

\* _status_matches(df, targets): the boolean mask over the rows of df
status_matches(d, targets) == [i \in DOMAIN d |-> status_matches_row(d[i], targets)]

\* the two CASE expressions of the totals query of get_stats
sql_closed_case(row) ==
    \/ str_lower(fillna(row.status)) \in {t_solved, t_closed, t_completed, t_resolved}
    \/ startswith(str_lower(fillna(row.call_status)), t_solved)

sql_pending_case(row) ==
    str_lower(fillna(row.status)) \in
        {t_pending, t_processing, t_unsolved, t_open, t_in_progress}

-----------------------------------------------------------------------------
(* Durations and rounding                                                  *)

SECONDS_PER_DAY == 86400
SECONDS_PER_HOUR == 3600
SLA_DAYS == 2
REPEAT_WINDOW_DAYS == 30

\* round(num / den) to the nearest integer, ties to even, for den > 0
\* (Python's round(x, n) with x scaled by 10^n)
round_half_even(num, den) ==
    LET q == num \div den
        r == num % den
    IN  IF 2 * r < den THEN q
        ELSE IF 2 * r > den THEN q + 1
        ELSE IF q % 2 = 0 THEN q ELSE q + 1

RECURSIVE seq_sum(_)
seq_sum(s) == IF s = <<>> THEN 0 ELSE Head(s) + seq_sum(Tail(s))

\* _resolution_days(df): solved - entry, in seconds, of every row that has both
\* timestamps (the division by 86400 is carried by the users of the result)
resolution_days(d) ==
    LET has_both(row) ==
            ~IsNull(row.call_entry_datetime) /\ ~IsNull(row.call_solved_datetime)
        resolved == SelectSeq(d, has_both)   \* dropna(subset=[...])
    IN  [i \in DOMAIN resolved |->
            Val(resolved[i].call_solved_datetime) - Val(resolved[i].call_entry_datetime)]

-----------------------------------------------------------------------------
(* Repeated issues: query_tools._repeated_issue_count                      *)

\* the characters of the model's text, in code-point order
Digits == <<"0", "1", "2", "3", "4", "5", "6", "7", "8", "9">>

Alphabet ==
    <<" ", "(", ")", ",", "-", ".">> \o Digits \o
    <<"A", "B", "C", "D", "E", "F", "G", "H", "I", "J", "K", "L", "M",
      "N", "O", "P", "Q", "R", "S", "T", "U", "V", "W", "X", "Y", "Z",
      "a", "b", "c", "d", "e", "f", "g", "h", "i", "j", "k", "l", "m",
      "n", "o", "p", "q", "r", "s", "t", "u", "v", "w", "x", "y", "z">>

ord(c) == CHOOSE i \in DOMAIN Alphabet : Alphabet[i] = c

\* a < b for text, character by character
RECURSIVE str_less(_, _)
str_less(a, b) ==
    IF b = <<>> THEN FALSE
    ELSE IF a = <<>> THEN TRUE
    ELSE IF Head(a) # Head(b) THEN ord(Head(a)) < ord(Head(b))
    ELSE str_less(Tail(a), Tail(b))

\* row r1 sorts strictly before r2 by
\* ["customer_name", "customer_complaint", "call_entry_datetime"]
repeat_key_less(r1, r2) ==
    LET n1 == Val(r1.customer_name)
        n2 == Val(r2.customer_name)
        c1 == Val(r1.customer_complaint)
        c2 == Val(r2.customer_complaint)
    IN  IF n1 # n2 THEN str_less(n1, n2)
        ELSE IF c1 # c2 THEN str_less(c1, c2)
        ELSE Val(r1.call_entry_datetime) < Val(r2.call_entry_datetime)

\* x inserted into the sorted sequence s behind every row that is not after it
RECURSIVE insert_sorted(_, _)
insert_sorted(s, x) ==
    IF s = <<>> THEN <<x>>
    ELSE IF repeat_key_less(x, Head(s)) THEN <<x>> \o s
    ELSE <<Head(s)>> \o insert_sorted(Tail(s), x)

RECURSIVE sort_onto(_, _)
sort_onto(acc, s) ==
    IF s = <<>> THEN acc ELSE sort_onto(insert_sorted(acc, Head(s)), Tail(s))

\* subset.sort_values(by=[name, complaint, entry]): a stable sort
sort_values(s) == sort_onto(<<>>, s)

same_pair(r1, r2) ==
    /\ r1.customer_name = r2.customer_name
    /\ r1.customer_complaint = r2.customer_complaint

\* group_diff with every gap measured from the first row of the group
group_diff_from_first(frame, i) ==
    LET earlier == {j \in 1..(i - 1) : same_pair(frame[j], frame[i])}
    IN  IF earlier = {} THEN NULL
        ELSE LET j == CHOOSE k \in earlier : \A m \in earlier : k <= m
             IN  Some(Val(frame[i].call_entry_datetime)
                        - Val(frame[j].call_entry_datetime))

\* groupby([name, complaint])["call_entry_datetime"].diff() at position i of
\* the frame: the entry time minus that of the previous row of the same group,
\* NULL (NaT) for the first row of a group.  In seconds.
group_diff(frame, i) ==
    LET earlier == {j \in 1..(i - 1) : same_pair(frame[j], frame[i])}
    IN  IF earlier = {} THEN NULL
        ELSE LET j == CHOOSE k \in earlier : \A m \in earlier : m <= k
             IN  Some(Val(frame[i].call_entry_datetime)
                        - Val(frame[j].call_entry_datetime))

repeated_issue_count(d) ==
    LET complete(row) ==
            /\ ~IsNull(row.customer_name)
            /\ ~IsNull(row.customer_complaint)
            /\ ~IsNull(row.call_entry_datetime)
        subset == SelectSeq(d, complete)
        sorted == sort_values(subset)
        diff_days == [i \in DOMAIN sorted |-> group_diff(sorted, i)]
        flags == [i \in DOMAIN sorted |->
                     /\ ~IsNull(diff_days[i])
                     /\ Val(diff_days[i]) <= REPEAT_WINDOW_DAYS * SECONDS_PER_DAY]
    IN  IF subset = <<>> THEN 0 ELSE mask_sum(flags)

\* Series.mean() of the durations as a fraction of a day, times `scale`,
\* rounded half-even: round(mean, 2) is scale 100, in hundredths
rounded_mean(durations, unit, scale) ==
    round_half_even(scale * seq_sum(durations), Len(durations) * unit)

\* compute_kpis with the SLA boundary exclusive (resolution_days < 2)
compute_kpis_sla_exclusive(d) ==
    LET total_calls == Len(d)
        res == resolution_days(d)
        sla_hits == SelectSeq(res, LAMBDA x : x < SLA_DAYS * SECONDS_PER_DAY)
    IN  IF total_calls = 0
        THEN [total_calls |-> 0, closed_calls |-> 0, pending_calls |-> 0,
              avg_resolution_days |-> 0, sla_compliance |-> 0,
              repeated_issues |-> 0]
        ELSE [total_calls |-> total_calls,
              closed_calls |-> mask_sum(status_matches(d, CLOSED_TARGETS)),
              pending_calls |-> mask_sum(status_matches(d, PENDING_TARGETS)),
              avg_resolution_days |->
                  IF res # <<>> THEN rounded_mean(res, SECONDS_PER_DAY, 100) ELSE 0,
              sla_compliance |->
                  IF Len(res) # 0
                  THEN round_half_even(Len(sla_hits) * 1000, Len(res)) ELSE 0,
              repeated_issues |-> repeated_issue_count(d)]

\* compute_kpis with the mean taken over every record of the frame
compute_kpis_mean_over_all(d) ==
    LET total_calls == Len(d)
        res == resolution_days(d)
        sla_hits == SelectSeq(res, LAMBDA x : x <= SLA_DAYS * SECONDS_PER_DAY)
    IN  IF total_calls = 0
        THEN [total_calls |-> 0, closed_calls |-> 0, pending_calls |-> 0,
              avg_resolution_days |-> 0, sla_compliance |-> 0,
              repeated_issues |-> 0]
        ELSE [total_calls |-> total_calls,
              closed_calls |-> mask_sum(status_matches(d, CLOSED_TARGETS)),
              pending_calls |-> mask_sum(status_matches(d, PENDING_TARGETS)),
              avg_resolution_days |->
                  IF res # <<>>
                  THEN round_half_even(100 * seq_sum(res), total_calls * SECONDS_PER_DAY)
                  ELSE 0,
              sla_compliance |->
                  IF Len(res) # 0
                  THEN round_half_even(Len(sla_hits) * 1000, Len(res)) ELSE 0,
              repeated_issues |-> repeated_issue_count(d)]

\* compute_kpis(df).  avg_resolution_days is in hundredths of a day and
\* sla_compliance in tenths of a percent (the code rounds to 2 and 1 places)
compute_kpis(d) ==
    LET total_calls == Len(d)
        closed_mask == status_matches(d, CLOSED_TARGETS)
        pending_mask == status_matches(d, PENDING_TARGETS)
        res == resolution_days(d)
        sla_hits == SelectSeq(res, LAMBDA x : x <= SLA_DAYS * SECONDS_PER_DAY)
    IN  IF total_calls = 0
        THEN [total_calls |-> 0, closed_calls |-> 0, pending_calls |-> 0,
              avg_resolution_days |-> 0, sla_compliance |-> 0,
              repeated_issues |-> 0]
        ELSE [total_calls |-> total_calls,
              closed_calls |-> mask_sum(closed_mask),
              pending_calls |-> mask_sum(pending_mask),
              avg_resolution_days |->
                  IF res # <<>> THEN rounded_mean(res, SECONDS_PER_DAY, 100) ELSE 0,
              sla_compliance |->
                  IF Len(res) # 0
                  THEN round_half_even(Len(sla_hits) * 1000, Len(res)) ELSE 0,
              repeated_issues |-> repeated_issue_count(d)]

\* the totals query of get_stats over the table, and the Python that follows
\* it.  average_resolution_hours is NULL or Some(hundredths of an hour): SQL
\* AVG skips the rows whose expression is NULL and is NULL over no row
get_stats_totals(table) ==
    LET closed == SelectSeq(table, sql_closed_case)
        pending == SelectSeq(table, sql_pending_case)
        res == resolution_days(table)
    IN  [total_calls |-> Len(table),
         closed_calls |-> Len(closed),
         pending_calls |-> Len(pending),
         average_resolution_hours |->
             IF res = <<>> THEN NULL
             ELSE Some(rounded_mean(res, SECONDS_PER_HOUR, 100))]

-----------------------------------------------------------------------------
(* Filter specifications, bound parameters and statement text              *)

\* the value of one criterion: None, one text, or a list/tuple/set of entries
\* each of which is NULL (None) or Some(text)
\* (a single text is held as the one entry of v)
NoValue == [kind |-> "none", v |-> <<>>]
Scalar(t) == [kind |-> "str", v |-> <<Some(t)>>]
Collection(items) == [kind |-> "list", v |-> items]

scalar_text(value) == Val(value.v[1])

\* Python truthiness of a criterion value ("if not value: continue")
truthy(value) ==
    CASE value.kind = "none" -> FALSE
      [] value.kind = "str" -> scalar_text(value) # <<>>
      [] OTHER -> value.v # <<>>

\* bound parameters, tagged by type
P_text(t) == [t |-> "text", v |-> t]
P_date(d) == [t |-> "date", v |-> d]
P_int(n) == [t |-> "int", v |-> n]

\* the value of a date filter: None, Some(day) for a date object, a str, or
\* a tuple of date objects
DateString(t) == <<"str", t>>
DateTuple(days) == <<"tuple", days>>

\* isinstance(value, date)
is_date(x) == Len(x) = 1

\* Python truthiness of a date filter ("if start_date:"): None, "" and ()
\* are false, a date, any other str and any other tuple are true
date_truthy(x) == x # <<>> /\ (is_date(x) \/ x[2] # <<>>)

\* date.isoformat() of a day of January 1970
isoformat(d) ==
    <<"1", "9", "7", "0", "-", "0", "1", "-",
      Digits[((d + 1) \div 10) + 1], Digits[((d + 1) % 10) + 1]>>

\* repr() of a date of January 1970: datetime.date(1970, 1, 5)
repr_of_date(d) ==
    <<"d", "a", "t", "e", "t", "i", "m", "e", ".", "d", "a", "t", "e", "(",
      "1", "9", "7", "0", ",", " ", "1", ",", " ">>
    \o (IF d + 1 >= 10 THEN <<Digits[((d + 1) \div 10) + 1]>> ELSE <<>>)
    \o <<Digits[((d + 1) % 10) + 1], ")">>

\* str() of a tuple of dates: (), (datetime.date(1970, 1, 5),),
\* (datetime.date(1970, 1, 5), datetime.date(1970, 1, 6))
RECURSIVE join_reprs(_)
join_reprs(days) ==
    IF days = <<>> THEN <<>>
    ELSE IF Len(days) = 1 THEN repr_of_date(days[1])
    ELSE repr_of_date(days[1]) \o <<",", " ">> \o join_reprs(Tail(days))

str_of_tuple(days) ==
    <<"(">> \o join_reprs(days) \o (IF Len(days) = 1 THEN <<",", ")">> ELSE <<")">>)

\* str(value) of a date filter that is not a date object
py_str(x) == IF x[1] = "tuple" THEN str_of_tuple(x[2]) ELSE x[2]

\* _coerce_date(value): the ISO text of a date, str(value) of anything else
coerce_date(x) == IF is_date(x) THEN P_date(Val(x)) ELSE P_text(py_str(x))

\* str(start_date) in fetch_filtered_calls
str_of_date(x) == IF is_date(x) THEN P_date(Val(x)) ELSE P_text(py_str(x))

CriterionKeys ==
    {"state", "model", "assigned_to", "engineer", "issue_category",
     "instrument_status", "status"}

\* FILTER_COLUMN_MAP of query_tools.py, in insertion order
QT_FILTER_COLUMN_MAP ==
    << <<"state", "state">>,
       <<"model", "model">>,
       <<"assigned_to", "forward_employee_name">>,
       <<"engineer", "visited_engineer_name">>,
       <<"issue_category", "nature_of_complaint">>,
       <<"instrument_status", "instrument_status">>,
       <<"status", "status">> >>

\* FILTER_COLUMN_MAP of query_builder.py, in insertion order
QB_FILTER_COLUMN_MAP ==
    << <<"state", "state">>,
       <<"model", "model">>,
       <<"engineer", "visited_engineer_name">>,
       <<"status", "status">>,
       <<"instrument_status", "instrument_status">> >>

DATE_COLUMN == "call_entry_datetime"

\* ", ".join(["?"] * n)
RECURSIVE placeholders(_)
placeholders(n) ==
    IF n = 0 THEN <<>>
    ELSE IF n = 1 THEN <<"?">>
    ELSE <<"?", ", ">> \o placeholders(n - 1)

\* " AND ".join(conditions), as one run of text fragments
RECURSIVE join_and(_)
join_and(conditions) ==
    IF conditions = <<>> THEN <<>>
    ELSE IF Len(conditions) = 1 THEN Head(conditions)
    ELSE Head(conditions) \o <<" AND ">> \o join_and(Tail(conditions))

\* what a builder hands back: the statement text (a sequence of fragments),
\* the conditions it joined and the bound parameters, or the error it raised
Built(sql, conditions, params) ==
    [status |-> "ok", sql |-> sql, conditions |-> conditions, params |-> params]
Raised(error) ==
    [status |-> error, sql |-> <<>>, conditions |-> <<>>, params |-> <<>>]

\* _append_condition without the removal of None and "" entries
append_condition_keep_blanks(column, value, conditions, params) ==
    IF value.kind = "list"
    THEN LET values == value.v
         IN  IF values = <<>> THEN <<conditions, params>>
             ELSE <<Append(conditions,
                           <<column, " IN (">> \o placeholders(Len(values)) \o <<")">>),
                    params \o [i \in DOMAIN values |-> P_text(fillna(values[i]))]>>
    ELSE <<Append(conditions, <<column, " = ?">>),
           Append(params, P_text(scalar_text(value)))>>

\* _append_condition(column, value, conditions, params): the pair
\* <<conditions, params>> after the call
append_condition(column, value, conditions, params) ==
    IF value.kind = "list"
    THEN LET values == SelectSeq(value.v, LAMBDA e : e # NULL /\ e # Some(<<>>))
         IN  IF values = <<>> THEN <<conditions, params>>
             ELSE <<Append(conditions,
                           <<column, " IN (">> \o placeholders(Len(values)) \o <<")">>),
                    params \o [i \in DOMAIN values |-> P_text(Val(values[i]))]>>
    ELSE <<Append(conditions, <<column, " = ?">>),
           Append(params, P_text(scalar_text(value)))>>

\* the loop "for key, column in FILTER_COLUMN_MAP.items()" of
\* fetch_filtered_calls from entry i on
RECURSIVE qt_criteria(_, _, _, _)
qt_criteria(filters, i, conditions, params) ==
    IF i > Len(QT_FILTER_COLUMN_MAP) THEN <<conditions, params>>
    ELSE LET key == QT_FILTER_COLUMN_MAP[i][1]
             column == QT_FILTER_COLUMN_MAP[i][2]
             value == filters[key]
             next == IF ~truthy(value) THEN <<conditions, params>>
                     ELSE append_condition(column, value, conditions, params)
         IN  qt_criteria(filters, i + 1, next[1], next[2])

\* the statement fetch_filtered_calls builds (query_tools.py 89-124)
fetch_filtered_calls_query(filters, limit) ==
    LET c1 == IF date_truthy(filters.start_date)
              THEN << <<"date(call_entry_datetime) >= ?">> >> ELSE <<>>
        p1 == IF date_truthy(filters.start_date)
              THEN <<str_of_date(filters.start_date)>> ELSE <<>>
        c2 == IF date_truthy(filters.end_date)
              THEN Append(c1, <<"date(call_entry_datetime) <= ?">>) ELSE c1
        p2 == IF date_truthy(filters.end_date)
              THEN Append(p1, str_of_date(filters.end_date)) ELSE p1
        cp == qt_criteria(filters, 1, c2, p2)
        conditions == cp[1]
        where_clause ==
            IF conditions # <<>> THEN <<"WHERE ">> \o join_and(conditions) ELSE <<>>
        limit_clause == IF ~IsNull(limit) THEN <<" LIMIT ?">> ELSE <<>>
        params == IF ~IsNull(limit) THEN Append(cp[2], P_int(Val(limit))) ELSE cp[2]
    IN  IF ~IsNull(limit) /\ Val(limit) <= 0
        THEN Raised("ValueError")
        ELSE Built(<<"SELECT * FROM service_calls ">> \o where_clause
                       \o <<" ORDER BY call_entry_datetime DESC">> \o limit_clause,
                   conditions, params)

\* the loop over FILTER_COLUMN_MAP of build_service_calls_query from entry i on
RECURSIVE qb_criteria(_, _, _, _)
qb_criteria(filters, i, conditions, params) ==
    IF i > Len(QB_FILTER_COLUMN_MAP) THEN <<conditions, params>>
    ELSE LET key == QB_FILTER_COLUMN_MAP[i][1]
             column == QB_FILTER_COLUMN_MAP[i][2]
             value == filters[key]
         IN  IF value.kind = "none"
             THEN qb_criteria(filters, i + 1, conditions, params)
             ELSE qb_criteria(filters, i + 1,
                              Append(conditions, <<column, " = ?">>),
                              Append(params, P_text(scalar_text(value))))

\* build_service_calls_query with the limit written into the statement
\* instead of bound to a placeholder
build_service_calls_query_inline_limit(filters, limit) ==
    LET cp == qb_criteria(filters, 1, <<>>, <<>>)
        c1 == IF date_truthy(filters.start_date)
              THEN Append(cp[1], <<"date(", DATE_COLUMN, ") >= ?">>) ELSE cp[1]
        p1 == IF date_truthy(filters.start_date)
              THEN Append(cp[2], coerce_date(filters.start_date)) ELSE cp[2]
        conditions ==
              IF date_truthy(filters.end_date)
              THEN Append(c1, <<"date(", DATE_COLUMN, ") <= ?">>) ELSE c1
        params == IF date_truthy(filters.end_date)
                  THEN Append(p1, coerce_date(filters.end_date)) ELSE p1
        where_clause ==
            IF conditions # <<>> THEN <<" WHERE ">> \o join_and(conditions) ELSE <<>>
        limit_clause ==
            IF ~IsNull(limit) THEN <<" LIMIT ", ToString(Val(limit))>> ELSE <<>>
    IN  IF ~IsNull(limit) /\ Val(limit) <= 0
        THEN Raised("ValueError")
        ELSE Built(<<"SELECT * FROM service_calls ">> \o where_clause
                       \o <<" ORDER BY ", DATE_COLUMN, " DESC">> \o limit_clause,
                   conditions, params)

\* build_service_calls_query(filters, limit=limit) (query_builder.py 25-72)
build_service_calls_query(filters, limit) ==
    LET cp == qb_criteria(filters, 1, <<>>, <<>>)
        c1 == IF date_truthy(filters.start_date)
              THEN Append(cp[1], <<"date(", DATE_COLUMN, ") >= ?">>) ELSE cp[1]
        p1 == IF date_truthy(filters.start_date)
              THEN Append(cp[2], coerce_date(filters.start_date)) ELSE cp[2]
        conditions ==
              IF date_truthy(filters.end_date)
              THEN Append(c1, <<"date(", DATE_COLUMN, ") <= ?">>) ELSE c1
        p2 == IF date_truthy(filters.end_date)
              THEN Append(p1, coerce_date(filters.end_date)) ELSE p1
        where_clause ==
            IF conditions # <<>> THEN <<" WHERE ">> \o join_and(conditions) ELSE <<>>
        limit_clause == IF ~IsNull(limit) THEN <<" LIMIT ?">> ELSE <<>>
        params == IF ~IsNull(limit) THEN Append(p2, P_int(Val(limit))) ELSE p2
    IN  IF ~IsNull(limit) /\ Val(limit) <= 0
        THEN Raised("ValueError")
        ELSE Built(<<"SELECT * FROM service_calls ">> \o where_clause
                       \o <<" ORDER BY ", DATE_COLUMN, " DESC">> \o limit_clause,
                   conditions, params)

-----------------------------------------------------------------------------
(* Running a statement against service_calls                               *)

\* the fragments that carry one "?" each
BindingFragments ==
    {"?", " = ?", ") >= ?", ") <= ?",
     "date(call_entry_datetime) >= ?", "date(call_entry_datetime) <= ?"}

cond_arity(cond) == Cardinality({i \in DOMAIN cond : cond[i] \in BindingFragments})

\* a date() that rounds a timestamp up to the next midnight
sql_date_round_up(ts) == (ts + SECONDS_PER_DAY - 1) \div SECONDS_PER_DAY

\* SQL date(x) of a stored timestamp: its calendar day
sql_date(ts) == ts \div SECONDS_PER_DAY

\* date(x) >= ? and date(x) <= ?: SQLite compares the text of the date with
\* the parameter.  For the ISO text of a date that is the order of the days;
\* any other text is compared character by character.
date_ge(day, arg) ==
    IF arg.t = "date" THEN day >= arg.v ELSE ~str_less(isoformat(day), arg.v)

date_le(day, arg) ==
    IF arg.t = "date" THEN day <= arg.v ELSE ~str_less(arg.v, isoformat(day))

\* one condition of a WHERE clause on a row, with the parameters bound to it.
\* A comparison with a NULL column is not true.
cond_holds(cond, args, row) ==
    LET last == cond[Len(cond)]
    IN  IF last = " = ?"
        THEN ~IsNull(row[cond[1]]) /\ Val(row[cond[1]]) = args[1].v
        ELSE IF last = ")" /\ Len(cond) > 1 /\ cond[2] = " IN ("
        THEN /\ ~IsNull(row[cond[1]])
             /\ \E i \in DOMAIN args : Val(row[cond[1]]) = args[i].v
        ELSE IF last \in {") >= ?", "date(call_entry_datetime) >= ?"}
        THEN /\ ~IsNull(row.call_entry_datetime)
             /\ date_ge(sql_date(Val(row.call_entry_datetime)), args[1])
        ELSE /\ ~IsNull(row.call_entry_datetime)
             /\ date_le(sql_date(Val(row.call_entry_datetime)), args[1])

\* cond1 AND cond2 AND ..., the parameters taken in placeholder order
RECURSIVE where_holds(_, _, _)
where_holds(conditions, params, row) ==
    IF conditions = <<>> THEN TRUE
    ELSE LET k == cond_arity(Head(conditions))
         IN  /\ cond_holds(Head(conditions), SubSeq(params, 1, k), row)
             /\ where_holds(Tail(conditions), SubSeq(params, k + 1, Len(params)), row)

\* ORDER BY call_entry_datetime DESC: NULL sorts below every value, and the
\* order of rows with equal keys is not determined by the statement
entry_desc_ok(r1, r2) ==
    \/ IsNull(r2.call_entry_datetime)
    \/ /\ ~IsNull(r1.call_entry_datetime)
       /\ Val(r1.call_entry_datetime) >= Val(r2.call_entry_datetime)

order_by_entry_desc(rows) ==
    {ordered \in {[i \in DOMAIN rows |-> rows[p[i]]] : p \in Permutations(DOMAIN rows)} :
        \A i \in 1..(Len(ordered) - 1) : entry_desc_ok(ordered[i], ordered[i + 1])}

\* LIMIT n: the first n rows; a negative n is no limit (SQLite)
sql_limit(rows, n) ==
    IF n < 0 \/ n >= Len(rows) THEN rows ELSE SubSeq(rows, 1, n)

\* every result the statement can return on the table
execute(q, table) ==
    LET has_limit == q.sql[Len(q.sql)] = " LIMIT ?"
        where_params ==
            IF has_limit THEN SubSeq(q.params, 1, Len(q.params) - 1) ELSE q.params
        matching == SelectSeq(table, LAMBDA row : where_holds(q.conditions, where_params, row))
    IN  {IF has_limit THEN sql_limit(ordered, q.params[Len(q.params)].v) ELSE ordered :
            ordered \in order_by_entry_desc(matching)}

-----------------------------------------------------------------------------
(* Distributions                                                           *)

ENGINEER_WORKLOAD_LIMIT == 25
TOP_ISSUES_DEFAULT_LIMIT == 10

RECURSIVE lstrip(_)
lstrip(s) == IF s # <<>> /\ Head(s) = " " THEN lstrip(Tail(s)) ELSE s

RECURSIVE rstrip(_)
rstrip(s) ==
    IF s # <<>> /\ s[Len(s)] = " " THEN rstrip(SubSeq(s, 1, Len(s) - 1)) ELSE s

\* str.strip() / SQL TRIM(x)
str_strip(s) == rstrip(lstrip(s))

\* the tables of one row per distinct value with its number of occurrences,
\* most frequent first (Series.value_counts(); GROUP BY ... ORDER BY value
\* DESC).  The order of values with equal counts is not determined.
value_counts(values) ==
    LET labels == {values[i] : i \in DOMAIN values}
        count(l) == Cardinality({i \in DOMAIN values : values[i] = l})
    IN  {[i \in DOMAIN order |-> [label |-> order[i], value |-> count(order[i])]] :
            order \in {o \in [1..Cardinality(labels) -> labels] :
                          /\ \A i, j \in DOMAIN o : i # j => o[i] # o[j]
                          /\ \A i \in 1..(Len(o) - 1) : count(o[i]) >= count(o[i + 1])}}

\* DataFrame.head(n): the first n rows, all but the last -n for a negative n
head(rows, n) ==
    IF n >= 0 THEN SubSeq(rows, 1, IF n <= Len(rows) THEN n ELSE Len(rows))
    ELSE SubSeq(rows, 1, IF Len(rows) + n >= 0 THEN Len(rows) + n ELSE 0)

\* df[column].dropna().str.strip().replace("", NA).dropna()
stripped_present(d, column) ==
    LET present == SelectSeq(d, LAMBDA row : ~IsNull(row[column]))
        stripped == [i \in DOMAIN present |-> str_strip(Val(present[i][column]))]
    IN  SelectSeq(stripped, LAMBDA t : t # <<>>)

\* prepare_distribution(df, column, limit): every table it can return
prepare_distribution(d, column, limit) ==
    {IF ~IsNull(limit) /\ Val(limit) # 0 THEN head(data, Val(limit)) ELSE data :
        data \in value_counts(stripped_present(d, column))}

\* prepare_top_issues(df, limit): every table it can return
prepare_top_issues(d, limit) ==
    {head(data, limit) : data \in value_counts(stripped_present(d, "customer_complaint"))}

\* the statement of _build_distribution(db, column, limit)
build_distribution_query(column, limit) ==
    Built(<<"SELECT ", column, " AS label, COUNT(*) AS value FROM service_calls WHERE ",
            column, " IS NOT NULL AND TRIM(", column, ") <> '' GROUP BY ", column,
            " ORDER BY value DESC">>
             \o (IF ~IsNull(limit) THEN <<" LIMIT ?">> ELSE <<>>),
          <<>>,
          IF ~IsNull(limit) THEN <<P_int(Val(limit))>> ELSE <<>>)

\* _build_distribution(db, column, limit): every list it can return.  The
\* groups are the stored values themselves; TRIM only decides which rows count.
build_distribution(table, column, limit) ==
    LET kept == SelectSeq(table, LAMBDA row :
                    ~IsNull(row[column]) /\ str_strip(Val(row[column])) # <<>>)
        values == [i \in DOMAIN kept |-> Val(kept[i][column])]
    IN  {IF ~IsNull(limit) THEN sql_limit(data, Val(limit)) ELSE data :
            data \in value_counts(values)}

-----------------------------------------------------------------------------
(* The filter operations                                                   *)

ALL_CALLS_LIMIT == 2000
FILTER_DEFAULT_LIMIT == 1000
FILTER_MIN_LIMIT == 1
FILTER_MAX_LIMIT == 5000

\* what a filter operation leaves in `out`
FilterOutcome(op, status, request, query, rows) ==
    [op |-> op, status |-> status, request |-> request, query |-> query, rows |-> rows]

\* the days whose ISO text the model can write
JanuaryDays == 0..30

\* the validation of an Optional[date] query parameter: it is absent or the
\* ISO text of a date
date_parses(x) == x = <<>> \/ is_date(x) \/ \E d \in JanuaryDays : isoformat(d) = x[2]

parse_date(x) ==
    IF x = <<>> \/ is_date(x) THEN x
    ELSE IF date_parses(x) THEN Some(CHOOSE d \in JanuaryDays : isoformat(d) = x[2])
    ELSE NULL

\* GET /calls/filter.  The request carries a filter specification and maybe a
\* limit; the endpoint declares five criteria, the two dates (validated as
\* dates) and the limit (validated ge=1, le=5000, default 1000) and ignores
\* every other parameter.
FilterCalls(requests) ==
    \E request \in requests :
        LET limit == IF IsNull(request.limit) THEN FILTER_DEFAULT_LIMIT
                     ELSE Val(request.limit)
            filters == [state |-> request.filters.state,
                        model |-> request.filters.model,
                        engineer |-> request.filters.engineer,
                        start_date |-> parse_date(request.filters.start_date),
                        end_date |-> parse_date(request.filters.end_date),
                        status |-> request.filters.status,
                        instrument_status |-> request.filters.instrument_status]
            query == build_service_calls_query(filters, Some(limit))
        IN  /\ IF \/ limit < FILTER_MIN_LIMIT \/ limit > FILTER_MAX_LIMIT
                  \/ ~date_parses(request.filters.start_date)
                  \/ ~date_parses(request.filters.end_date)
               THEN out' = FilterOutcome("filter_calls", "422", request, Raised("422"), <<>>)
               ELSE IF query.status # "ok"
               THEN out' = FilterOutcome("filter_calls", query.status, request, query, <<>>)
               ELSE \E rows \in execute(query, store) :
                        out' = FilterOutcome("filter_calls", "ok", request, query, rows)
            /\ UNCHANGED <<store, df, cache, txn>>

\* query_tools.fetch_filtered_calls(filters, limit)
FetchFilteredCalls(requests) ==
    \E request \in requests :
        LET query == fetch_filtered_calls_query(request.filters, request.limit)
        IN  IF query.status # "ok"
            THEN /\ out' = FilterOutcome("fetch_filtered_calls", query.status,
                                         request, query, <<>>)
                 /\ UNCHANGED <<store, df, cache, txn>>
            ELSE \E rows \in execute(query, store) :
                    /\ out' = FilterOutcome("fetch_filtered_calls", "ok",
                                            request, query, rows)
                    /\ df' = rows
                    /\ UNCHANGED <<store, cache, txn>>

\* query_builder.build_service_calls_query(filters, limit), called directly
BuildServiceCallsQuery(requests) ==
    \E request \in requests :
        /\ out' = FilterOutcome("build_service_calls_query",
                                build_service_calls_query(request.filters, request.limit).status,
                                request,
                                build_service_calls_query(request.filters, request.limit),
                                <<>>)
        /\ UNCHANGED <<store, df, cache, txn>>

\* what a distribution operation leaves in `out`
DistributionOutcome(op, column, limit, data) ==
    [op |-> op, status |-> "ok", request |-> [column |-> column, limit |-> limit],
     data |-> data]

\* query_tools.prepare_distribution(df, column, limit) on the dashboard frame
PrepareDistribution(columns, limits) ==
    \E column \in columns, limit \in limits :
        \E data \in prepare_distribution(df, column, limit) :
            /\ out' = DistributionOutcome("prepare_distribution", column, limit, data)
            /\ UNCHANGED <<store, df, cache, txn>>

\* query_tools.prepare_top_issues(df, limit) on the dashboard frame
PrepareTopIssues(limits) ==
    \E limit \in limits :
        \E data \in prepare_top_issues(df, IF IsNull(limit) THEN TOP_ISSUES_DEFAULT_LIMIT
                                           ELSE Val(limit)) :
            /\ out' = DistributionOutcome("prepare_top_issues", "customer_complaint",
                                          limit, data)
            /\ UNCHANGED <<store, df, cache, txn>>

-----------------------------------------------------------------------------
(* KPI operations over a record set                                        *)

Idle == [op |-> "idle"]

\* no ingestion run has opened a transaction
NoTxn == [state |-> "none"]

\* the dashboard computes the KPIs of the frame it holds (app.py: kpis =
\* query_tools.compute_kpis(filtered_df))
ComputeKpis ==
    /\ out' = [op |-> "compute_kpis", kpis |-> compute_kpis(df)]
    /\ UNCHANGED <<store, df, cache, txn>>

\* the totals statement of get_stats
totals_query ==
    Built(<<"SELECT COUNT(*) AS total_calls, ",
            "SUM(CASE WHEN LOWER(COALESCE(status, '')) IN ('solved', 'closed', 'completed', 'resolved') OR LOWER(COALESCE(call_status, '')) LIKE 'solved%' THEN 1 ELSE 0 END) AS closed_calls, ",
            "SUM(CASE WHEN LOWER(COALESCE(status, '')) IN ('pending', 'processing', 'unsolved', 'open', 'in progress') THEN 1 ELSE 0 END) AS pending_calls, ",
            "AVG((julianday(call_solved_datetime) - julianday(call_entry_datetime)) * 24.0) AS avg_resolution ",
            "FROM service_calls">>,
          <<>>, <<>>)

\* GET /calls/stats: the totals query, then the three distribution queries
GetStats ==
    \E sd \in build_distribution(store, "state", NULL),
       md \in build_distribution(store, "model", NULL),
       ew \in build_distribution(store, "visited_engineer_name",
                                 Some(ENGINEER_WORKLOAD_LIMIT)) :
        /\ out' = [op |-> "get_stats", stats |-> get_stats_totals(store),
                   state_distribution |-> sd, model_distribution |-> md,
                   engineer_workload |-> ew,
                   queries |-> <<totals_query,
                                 build_distribution_query("state", NULL),
                                 build_distribution_query("model", NULL),
                                 build_distribution_query("visited_engineer_name",
                                                          Some(ENGINEER_WORKLOAD_LIMIT))>>]
        /\ UNCHANGED <<store, df, cache, txn>>

KpiNext == ComputeKpis \/ GetStats

\* a KPI specification starts with a record set drawn from `frames`, held both
\* by the dashboard frame and by the table, and applies the two KPI paths to it
KpiInit(frames) ==
    /\ df \in {Numbered(f) : f \in frames}
    /\ store = df
    /\ cache = NULL
    /\ out = Idle
    /\ txn = NoTxn

-----------------------------------------------------------------------------
(* Record sets that exercise the status taxonomy                           *)

MaxStatusRows == 2

StatusValues ==
    {NULL,
     Some(<<"S", "o", "l", "v", "e", "d">>),
     Some(<<"s", "o", "l", "v", "e", "d">>),
     Some(<<"C", "L", "O", "S", "E", "D">>),
     Some(<<"C", "o", "m", "p", "l", "e", "t", "e", "d">>),
     Some(<<"r", "e", "s", "o", "l", "v", "e", "d">>),
     Some(<<"P", "e", "n", "d", "i", "n", "g">>),
     Some(<<"p", "r", "o", "c", "e", "s", "s", "i", "n", "g">>),
     Some(<<"U", "n", "S", "o", "l", "v", "e", "d">>),
     Some(<<"o", "p", "e", "n">>),
     Some(<<"I", "n", " ", "P", "r", "o", "g", "r", "e", "s", "s">>),
     Some(<<"S", "o", "l", "v", "e", "d", " ", "l", "a", "t", "e">>),
     Some(<<"c", "a", "n", "c", "e", "l", "l", "e", "d">>)}

CallStatusValues ==
    {NULL,
     Some(<<"S", "o", "l", "v", "e", "d", " ", "-", " ", "O", "K">>),
     Some(<<"S", "O", "L", "V", "E", "D">>),
     Some(<<"C", "l", "o", "s", "e", "d", " ", "-", " ", "O", "K">>),
     Some(<<"P", "e", "n", "d", "i", "n", "g">>),
     Some(<<"o", "p", "e", "n", " ", "t", "i", "c", "k", "e", "t">>),
     Some(<<"v", "i", "s", "i", "t", " ", "p", "l", "a", "n", "n", "e", "d">>)}

StatusRows ==
    {[BlankRow EXCEPT !.status = s, !.call_status = c] :
        s \in StatusValues, c \in CallStatusValues}

StatusInit == KpiInit(SeqsUpTo(StatusRows, MaxStatusRows))

SpecStatus == StatusInit /\ [][KpiNext]_vars

-----------------------------------------------------------------------------
(* C1, C2: which records count as closed and as pending                    *)

\* the closed rule as the specification words it: status is exactly one of
\* solved/closed/completed/resolved, or call_status starts with "solved",
\* both compared without regard to case
C1_IsClosed(row) ==
    \/ \E t \in {t_solved, t_closed, t_completed, t_resolved} :
          ~IsNull(row.status) /\ str_lower(Val(row.status)) = t
    \/ /\ ~IsNull(row.call_status)
       /\ startswith(str_lower(Val(row.call_status)), t_solved)

\* the pending rule as the specification words it: status alone decides
C2_IsPending(row) ==
    /\ ~IsNull(row.status)
    /\ str_lower(Val(row.status)) \in
          {t_pending, t_processing, t_unsolved, t_open, t_in_progress}

CountRows(rows, P(_)) == Cardinality({i \in DOMAIN rows : P(rows[i])})

\* C1: on both paths closed_calls is the number of records whose status is
\* exactly one of solved/closed/completed/resolved or whose call_status starts
\* with "solved" (case-insensitive); no other call_status prefix closes a record.
C1_ClosedIffSolvedRule ==
    /\ out.op = "compute_kpis" => out.kpis.closed_calls = CountRows(df, C1_IsClosed)
    /\ out.op = "get_stats" => out.stats.closed_calls = CountRows(store, C1_IsClosed)

\* C2: on both paths pending_calls is the number of records whose status is
\* exactly one of pending/processing/unsolved/open/"in progress"
\* (case-insensitive); call_status has no influence.
C2_PendingIffStatusRule ==
    /\ out.op = "compute_kpis" => out.kpis.pending_calls = CountRows(df, C2_IsPending)
    /\ out.op = "get_stats" => out.stats.pending_calls = CountRows(store, C2_IsPending)

\* the API path alone does follow both rules
C1C2_ApiFollowsRules ==
    out.op = "get_stats" =>
        /\ out.stats.closed_calls = CountRows(store, C1_IsClosed)
        /\ out.stats.pending_calls = CountRows(store, C2_IsPending)

-----------------------------------------------------------------------------
(* C22: closed and pending counts against the total                        *)

\* C22: no record is classified as both closed and pending: on the API stats
\* path and on the dashboard KPI path closed_calls + pending_calls never
\* exceeds total_calls, also for records whose status and call_status
\* disagree (status "Pending" with call_status "Solved - OK").
C22_ClosedPlusPendingWithinTotal ==
    /\ out.op = "compute_kpis" =>
          out.kpis.closed_calls + out.kpis.pending_calls <= out.kpis.total_calls
    /\ out.op = "get_stats" =>
          out.stats.closed_calls + out.stats.pending_calls <= out.stats.total_calls

\* a record that either path counts as closed and as pending
C22_CountedTwice(row) ==
    \/ /\ status_matches_row(row, {t_solved, t_closed, t_completed, t_resolved})
       /\ status_matches_row(row, {t_pending, t_processing, t_unsolved, t_open,
                                   t_in_progress})
    \/ sql_closed_case(row) /\ sql_pending_case(row)

\* what does hold: each count alone is within the total, and the sum exceeds
\* the total by exactly the records counted on both sides
C22_EachCountWithinTotal ==
    /\ out.op = "compute_kpis" =>
          /\ out.kpis.closed_calls <= out.kpis.total_calls
          /\ out.kpis.pending_calls <= out.kpis.total_calls
          /\ out.kpis.closed_calls + out.kpis.pending_calls
                <= out.kpis.total_calls + CountRows(df, C22_CountedTwice)
    /\ out.op = "get_stats" =>
          /\ out.stats.closed_calls <= out.stats.total_calls
          /\ out.stats.pending_calls <= out.stats.total_calls
          /\ out.stats.closed_calls + out.stats.pending_calls
                <= out.stats.total_calls + CountRows(store, C22_CountedTwice)

\* the bound of C22 on the API path alone; a record with status "open" and
\* call_status "SOLVED" breaks it there as well
C22_ApiWithinTotal ==
    out.op = "get_stats" =>
        out.stats.closed_calls + out.stats.pending_calls <= out.stats.total_calls

-----------------------------------------------------------------------------
(* Record sets that exercise the resolution time                           *)

MaxTimeRows == 3

Day(n) == n * SECONDS_PER_DAY

EntryTimes == {NULL, Some(0), Some(Day(2))}
SolvedTimes == {NULL, Some(0), Some(Day(2)), Some(Day(2) + 1), Some(Day(3))}

TimeRows ==
    {[BlankRow EXCEPT !.call_entry_datetime = e, !.call_solved_datetime = v] :
        e \in EntryTimes, v \in SolvedTimes}

TimeInit == KpiInit(SeqsUpTo(TimeRows, MaxTimeRows))

SpecTimes == TimeInit /\ [][KpiNext]_vars

-----------------------------------------------------------------------------
(* C9: records solved before they were entered                             *)

\* a record whose two timestamps are present and in order
C9_InOrder(row) ==
    /\ ~IsNull(row.call_entry_datetime)
    /\ ~IsNull(row.call_solved_datetime)
    /\ Val(row.call_entry_datetime) <= Val(row.call_solved_datetime)

C9_Durations(rows) ==
    LET ok == SelectSeq(rows, C9_InOrder)
    IN  [i \in DOMAIN ok |->
            Val(ok[i].call_solved_datetime) - Val(ok[i].call_entry_datetime)]

C9_Compliant(rows) ==
    Cardinality({i \in DOMAIN C9_Durations(rows) :
                    C9_Durations(rows)[i] <= SLA_DAYS * SECONDS_PER_DAY})

\* C9: a record whose call_solved_datetime is earlier than its
\* call_entry_datetime is left out of the resolution-time average and of the
\* SLA samples on both paths, and is still counted in total_calls.
C9_NegativeDurationsExcluded ==
    /\ out.op = "compute_kpis" =>
        LET ds == C9_Durations(df)
        IN  /\ out.kpis.total_calls = Len(df)
            /\ out.kpis.avg_resolution_days =
                  IF ds = <<>> THEN 0
                  ELSE round_half_even(100 * seq_sum(ds), Len(ds) * SECONDS_PER_DAY)
            /\ out.kpis.sla_compliance =
                  IF ds = <<>> THEN 0
                  ELSE round_half_even(1000 * C9_Compliant(df), Len(ds))
    /\ out.op = "get_stats" =>
        LET ds == C9_Durations(store)
        IN  /\ out.stats.total_calls = Len(store)
            /\ out.stats.average_resolution_hours =
                  IF ds = <<>> THEN NULL
                  ELSE Some(round_half_even(100 * seq_sum(ds),
                                            Len(ds) * SECONDS_PER_HOUR))

\* what does hold: such a record is counted in total_calls, and nothing fails
C9_StillCounted ==
    /\ out.op = "compute_kpis" => out.kpis.total_calls = Len(df)
    /\ out.op = "get_stats" => out.stats.total_calls = Len(store)

-----------------------------------------------------------------------------
(* C11, C12: SLA compliance and the average resolution time                 *)

\* the records of the frame with both timestamps
C11_Eligible(rows) ==
    {i \in DOMAIN rows : ~IsNull(rows[i].call_entry_datetime)
                         /\ ~IsNull(rows[i].call_solved_datetime)}

C11_Duration(row) == Val(row.call_solved_datetime) - Val(row.call_entry_datetime)

Abs(x) == IF x < 0 THEN -x ELSE x

\* C11: sla_compliance is the percentage, to one decimal, of the records with
\* both timestamps whose duration is at most 2 days (2 days exactly counts),
\* and 0.0 when there is no such record.
C11_SlaCompliance ==
    out.op = "compute_kpis" =>
        LET n == Cardinality(C11_Eligible(df))
            hits == Cardinality({i \in C11_Eligible(df) :
                        C11_Duration(df[i]) <= SLA_DAYS * SECONDS_PER_DAY})
            tenths == out.kpis.sla_compliance
        IN  IF n = 0 THEN tenths = 0
            ELSE 2 * Abs(tenths * n - 1000 * hits) <= n

\* two eligible records, one solved after exactly 2 days and one a second
\* later, give 50.0
C11_Witness ==
    /\ out.op = "compute_kpis"
    /\ Cardinality(C11_Eligible(df)) = 2
    /\ \E i \in C11_Eligible(df) : C11_Duration(df[i]) = SLA_DAYS * SECONDS_PER_DAY
    /\ \E i \in C11_Eligible(df) : C11_Duration(df[i]) = SLA_DAYS * SECONDS_PER_DAY + 1
    /\ out.kpis.sla_compliance = 500

\* the sum of the durations of the records with both timestamps
C12_Sum(rows) ==
    seq_sum([i \in DOMAIN rows |->
                IF i \in C11_Eligible(rows) THEN C11_Duration(rows[i]) ELSE 0])

\* `hundredths` is sum / (n * unit) rounded to two decimals
C12_IsRoundedMean(hundredths, sum, n, unit) ==
    2 * Abs(hundredths * n * unit - 100 * sum) <= n * unit

\* C12 as stated: both forms are the mean of solved - entry over exactly the
\* records with both timestamps, the API form (hours) is 24 times the
\* dashboard form (days) on the same records, and without such a record the
\* API form is null and the dashboard form 0.0.
C12_HoursAre24TimesDays ==
    out.op = "compute_kpis" =>
        LET n == Cardinality(C11_Eligible(df))
            days == out.kpis.avg_resolution_days
            hours == get_stats_totals(store).average_resolution_hours
        IN  IF n = 0 THEN days = 0 /\ IsNull(hours)
            ELSE /\ C12_IsRoundedMean(days, C12_Sum(df), n, SECONDS_PER_DAY)
                 /\ ~IsNull(hours)
                 /\ C12_IsRoundedMean(Val(hours), C12_Sum(store), n, SECONDS_PER_HOUR)
                 /\ Val(hours) = 24 * days

\* C12 amended: each form is that mean rounded to two decimals in its own
\* unit, so the API form is 24 times the dashboard form before rounding and
\* within 0.125 hours of it after; without a record with both timestamps the
\* API form is null and the dashboard form 0.0.
C12_MeanRoundedInOwnUnit ==
    out.op = "compute_kpis" =>
        LET n == Cardinality(C11_Eligible(df))
            days == out.kpis.avg_resolution_days
            hours == get_stats_totals(store).average_resolution_hours
        IN  IF n = 0 THEN days = 0 /\ IsNull(hours)
            ELSE /\ C12_IsRoundedMean(days, C12_Sum(df), n, SECONDS_PER_DAY)
                 /\ ~IsNull(hours)
                 /\ C12_IsRoundedMean(Val(hours), C12_Sum(store), n, SECONDS_PER_HOUR)
                 /\ 2 * Abs(Val(hours) - 24 * days) <= 25

\* a record without a solved time stands beside two records with both
\* timestamps whose durations differ, and the mean is taken over the two
C12_Witness ==
    /\ out.op = "compute_kpis"
    /\ Len(df) = 3
    /\ Cardinality(C11_Eligible(df)) = 2
    /\ \E i \in DOMAIN df : ~IsNull(df[i].call_entry_datetime)
                            /\ IsNull(df[i].call_solved_datetime)
    /\ C12_Sum(df) = 3 * SECONDS_PER_DAY
    /\ out.kpis.avg_resolution_days = 150
    /\ get_stats_totals(store).average_resolution_hours = Some(3600)

-----------------------------------------------------------------------------
(* Record sets that exercise the repeated-issue count                      *)

MaxRepeatRows == 3

n_A == <<"A", "c", "m", "e">>
n_B == <<"B", "o", "l", "t">>
c_leak == <<"l", "e", "a", "k">>
c_noise == <<"n", "o", "i", "s", "e">>

RepeatRow(name, complaint, entry) ==
    [BlankRow EXCEPT !.customer_name = name, !.customer_complaint = complaint,
                     !.call_entry_datetime = entry]

RepeatTimes == {0, Day(20), Day(50), Day(55)}

\* one pair at four entry times, two other pairs, and a record short of each
\* of the three fields
RepeatRows ==
    {RepeatRow(Some(n_A), Some(c_leak), Some(t)) : t \in RepeatTimes}
    \cup {RepeatRow(Some(n_B), Some(c_leak), Some(Day(20))),
          RepeatRow(Some(n_A), Some(c_noise), Some(Day(20))),
          RepeatRow(NULL, Some(c_leak), Some(Day(20))),
          RepeatRow(Some(n_A), NULL, Some(Day(20))),
          RepeatRow(Some(n_A), Some(c_leak), NULL)}

RepeatInit == KpiInit(SeqsUpTo(RepeatRows, MaxRepeatRows))

SpecRepeat == RepeatInit /\ [][KpiNext]_vars

-----------------------------------------------------------------------------
(* C10: the repeated-issue count                                           *)

C10_Complete(row) ==
    /\ ~IsNull(row.customer_name)
    /\ ~IsNull(row.customer_complaint)
    /\ ~IsNull(row.call_entry_datetime)

\* record j comes before record i: earlier entry time, input order on a tie
C10_Before(rows, j, i) ==
    LET tj == Val(rows[j].call_entry_datetime)
        ti == Val(rows[i].call_entry_datetime)
    IN  tj < ti \/ (tj = ti /\ j < i)

\* the records of the pair of record i that come before it
C10_Predecessors(rows, i) ==
    {j \in DOMAIN rows :
        /\ C10_Complete(rows[j])
        /\ rows[j].customer_name = rows[i].customer_name
        /\ rows[j].customer_complaint = rows[i].customer_complaint
        /\ C10_Before(rows, j, i)}

\* record i is a repeat: complete, not the first of its pair, and entered at
\* most 30 days after the latest of its predecessors
C10_IsRepeat(rows, i) ==
    /\ C10_Complete(rows[i])
    /\ C10_Predecessors(rows, i) # {}
    /\ \E j \in C10_Predecessors(rows, i) :
          /\ \A k \in C10_Predecessors(rows, i) :
                Val(rows[k].call_entry_datetime) <= Val(rows[j].call_entry_datetime)
          /\ Val(rows[i].call_entry_datetime) - Val(rows[j].call_entry_datetime)
                <= REPEAT_WINDOW_DAYS * SECONDS_PER_DAY

C10_Reorderings(rows) ==
    {[i \in DOMAIN rows |-> rows[p[i]]] : p \in Permutations(DOMAIN rows)}

\* C10: repeated_issues is the number of complete records that are not the
\* first of their (customer_name, customer_complaint) pair and were entered at
\* most 30 days after the immediately preceding record of the pair, and every
\* reordering of the input gives the same count.
C10_RepeatedIssuesCount ==
    out.op = "compute_kpis" =>
        /\ out.kpis.repeated_issues =
              Cardinality({i \in DOMAIN df : C10_IsRepeat(df, i)})
        /\ \A other \in C10_Reorderings(df) :
              compute_kpis(other).repeated_issues = out.kpis.repeated_issues

\* entries of one pair at day 0, 20 and 55, in any input order, counted as 1
C10_Witness ==
    /\ out.op = "compute_kpis"
    /\ Len(df) = 3
    /\ \A i \in DOMAIN df :
          /\ df[i].customer_name = Some(n_A)
          /\ df[i].customer_complaint = Some(c_leak)
          /\ ~IsNull(df[i].call_entry_datetime)
    /\ {Val(df[i].call_entry_datetime) : i \in DOMAIN df} = {0, Day(20), Day(55)}
    /\ Val(df[1].call_entry_datetime) = Day(55)
    /\ out.kpis.repeated_issues = 1

-----------------------------------------------------------------------------
(* Tables and requests that exercise the filter builders                   *)

MaxStoreRows == 2
MaxCriteria == 2

val_a == <<"T", "X">>
val_b == <<"C", "A">>

FilterColumns ==
    {"state", "model", "forward_employee_name", "visited_engineer_name",
     "nature_of_complaint", "instrument_status", "status"}

\* a row with val_a in every filterable column, entered on day 1 at noon
BaseRow ==
    [BlankRow EXCEPT
        !.state = Some(val_a), !.model = Some(val_a),
        !.forward_employee_name = Some(val_a), !.visited_engineer_name = Some(val_a),
        !.nature_of_complaint = Some(val_a), !.instrument_status = Some(val_a),
        !.status = Some(val_a),
        !.call_entry_datetime = Some(Day(1) + 12 * SECONDS_PER_HOUR)]

\* the base row, the base row with val_b in one column (entered on day 2 at
\* midnight), and a row with nothing but its call_id
FilterRows ==
    <<BaseRow>>
    \o [i \in 1..Len(QT_FILTER_COLUMN_MAP) |->
           [BaseRow EXCEPT ![QT_FILTER_COLUMN_MAP[i][2]] = Some(val_b),
                           !.call_entry_datetime = Some(Day(2))]]
    \o <<BlankRow>>

\* the subsequence of s at the positions in idx
Pick(s, idx) == SelectSeq([i \in DOMAIN s |-> <<i, s[i]>>], LAMBDA e : e[1] \in idx)

\* the tables of at most n of the rows, numbered by their place among the rows
TablesUpTo(rows, n) ==
    {[i \in DOMAIN Pick(rows, idx) |->
         [Pick(rows, idx)[i][2] EXCEPT !.call_id = Pick(rows, idx)[i][1]]] :
        idx \in {x \in SUBSET DOMAIN rows : Cardinality(x) <= n}}

NoCriteria == [k \in CriterionKeys |-> NoValue]

\* one criterion with a value of `values`, and up to maxc - 1 further
\* criteria with the single value val_a
CriteriaUpTo(values, maxc) ==
    {NoCriteria} \cup
    UNION {{[key \in CriterionKeys |->
                IF key = k THEN v ELSE IF key \in extra THEN Scalar(val_a) ELSE NoValue] :
               v \in values,
               extra \in {x \in SUBSET (CriterionKeys \ {k}) : Cardinality(x) < maxc}} :
           k \in CriterionKeys}

Filters(criteria, start, end) ==
    [start_date |-> start, end_date |-> end,
     state |-> criteria["state"], model |-> criteria["model"],
     assigned_to |-> criteria["assigned_to"], engineer |-> criteria["engineer"],
     issue_category |-> criteria["issue_category"],
     instrument_status |-> criteria["instrument_status"],
     status |-> criteria["status"]]

Request(filters, limit) == [filters |-> filters, limit |-> limit]

\* query-string values are single texts
ApiValues == {Scalar(val_a), Scalar(val_b)}

\* a single text, or a collection with or without blank entries
FrameValues ==
    {Scalar(val_a),
     Collection(<<Some(val_a)>>),
     Collection(<<Some(val_a), Some(val_b)>>),
     Collection(<<NULL, Some(<<>>)>>),
     Collection(<<Some(val_b), Some(<<>>), NULL>>)}

DateBounds == {<<NULL, NULL>>, <<Some(2), NULL>>, <<NULL, Some(1)>>, <<Some(1), Some(2)>>}

\* criteria without dates, and dates without criteria
ApiRequests ==
    {Request(Filters(c, NULL, NULL), NULL) : c \in CriteriaUpTo(ApiValues, MaxCriteria)}
    \cup {Request(Filters(NoCriteria, d[1], d[2]), NULL) : d \in DateBounds}

FrameRequests ==
    {Request(Filters(c, NULL, NULL), NULL) : c \in CriteriaUpTo(FrameValues, MaxCriteria)}
    \cup {Request(Filters(NoCriteria, d[1], d[2]), NULL) : d \in DateBounds}

FilterInit ==
    /\ store \in TablesUpTo(FilterRows, MaxStoreRows)
    /\ df = <<>>
    /\ cache = NULL
    /\ out = Idle
    /\ txn = NoTxn

\* one request is served on the table drawn
FilterNext ==
    \/ out = Idle /\ FilterCalls(ApiRequests)
    \/ out = Idle /\ FetchFilteredCalls(FrameRequests)

SpecFilter == FilterInit /\ [][FilterNext]_vars

-----------------------------------------------------------------------------
(* C3, C4: which records a filter selects                                  *)

\* the column each criterion of a filter specification constrains
C3_Column(key) ==
    CASE key = "state" -> "state"
      [] key = "model" -> "model"
      [] key = "assigned_to" -> "forward_employee_name"
      [] key = "engineer" -> "visited_engineer_name"
      [] key = "issue_category" -> "nature_of_complaint"
      [] key = "instrument_status" -> "instrument_status"
      [] key = "status" -> "status"

\* the texts a criterion accepts: its entries without None and ""
C3_Accepted(value) ==
    {Val(value.v[i]) : i \in {j \in DOMAIN value.v :
                                 value.v[j] # NULL /\ value.v[j] # Some(<<>>)}}

\* a criterion is supplied when it accepts some text
C3_Supplied(value) == C3_Accepted(value) # {}

C3_Satisfies(row, filters) ==
    /\ \A key \in CriterionKeys :
          C3_Supplied(filters[key]) =>
              /\ ~IsNull(row[C3_Column(key)])
              /\ Val(row[C3_Column(key)]) \in C3_Accepted(filters[key])
    /\ ~IsNull(filters.start_date) =>
          /\ ~IsNull(row.call_entry_datetime)
          /\ Val(row.call_entry_datetime) \div SECONDS_PER_DAY >= Val(filters.start_date)
    /\ ~IsNull(filters.end_date) =>
          /\ ~IsNull(row.call_entry_datetime)
          /\ Val(row.call_entry_datetime) \div SECONDS_PER_DAY <= Val(filters.end_date)

IsFilterOp == out.op \in {"filter_calls", "fetch_filtered_calls"}

\* the columns the conditions of the executed statement constrain
ConditionColumns(query) ==
    {query.conditions[i][1] : i \in DOMAIN query.conditions} \cap FilterColumns

Min(a, b) == IF a <= b THEN a ELSE b

\* C3: the query of either builder returns exactly the stored records that
\* satisfy every supplied criterion (up to the limit in force), with one
\* condition per supplied criterion, on that criterion's column, and none for
\* an absent one, for each of the seven criteria.
C3_ExactSelection ==
    (IsFilterOp /\ out.status = "ok") =>
        LET filters == out.request.filters
            wanted == {i \in DOMAIN store : C3_Satisfies(store[i], filters)}
            has_limit == out.query.sql[Len(out.query.sql)] = " LIMIT ?"
            limit == out.query.params[Len(out.query.params)].v
        IN  /\ {out.rows[i] : i \in DOMAIN out.rows} \subseteq {store[i] : i \in wanted}
            /\ Len(out.rows) =
                  IF has_limit THEN Min(Cardinality(wanted), limit)
                  ELSE Cardinality(wanted)
            /\ ConditionColumns(out.query) =
                  {C3_Column(key) : key \in {k \in CriterionKeys : C3_Supplied(filters[k])}}

\* what does hold of both builders: the query returns exactly the records
\* that satisfy the criteria the builder maps (query_builder.py maps five)
C3_SelectionOverMappedCriteria ==
    (IsFilterOp /\ out.status = "ok") =>
        LET mapped == IF out.op = "filter_calls"
                      THEN {QB_FILTER_COLUMN_MAP[i][1] : i \in DOMAIN QB_FILTER_COLUMN_MAP}
                      ELSE CriterionKeys
            filters == [k \in DOMAIN out.request.filters |->
                           IF k \in CriterionKeys \ mapped THEN NoValue
                           ELSE out.request.filters[k]]
            wanted == {i \in DOMAIN store : C3_Satisfies(store[i], filters)}
        IN  {out.rows[i] : i \in DOMAIN out.rows} = {store[i] : i \in wanted}

\* the number of parameters a criterion binds once None and "" are removed
C4_Bound(value) ==
    Cardinality({j \in DOMAIN value.v : value.v[j] # NULL /\ value.v[j] # Some(<<>>)})

C4_ExpectedParams(request) ==
    seq_sum([i \in DOMAIN QT_FILTER_COLUMN_MAP |->
                C4_Bound(request.filters[QT_FILTER_COLUMN_MAP[i][1]])])
    + (IF IsNull(request.filters.start_date) THEN 0 ELSE 1)
    + (IF IsNull(request.filters.end_date) THEN 0 ELSE 1)
    + (IF IsNull(request.limit) THEN 0 ELSE 1)

\* C4: for a criterion given as a collection, fetch_filtered_calls returns only
\* rows whose column value is one of the entries left after None and "" are
\* removed; when none is left the criterion adds no condition and no bound
\* parameter, and the result is that of the filter without the criterion.
C4_CollectionCriterion ==
    (out.op = "fetch_filtered_calls" /\ out.status = "ok") =>
        LET filters == out.request.filters
        IN  /\ \A key \in {k \in CriterionKeys : filters[k].kind = "list"} :
                  IF C3_Accepted(filters[key]) # {}
                  THEN \A i \in DOMAIN out.rows :
                          /\ ~IsNull(out.rows[i][C3_Column(key)])
                          /\ Val(out.rows[i][C3_Column(key)]) \in C3_Accepted(filters[key])
                  ELSE /\ C3_Column(key) \notin ConditionColumns(out.query)
                       /\ out.rows \in
                             execute(fetch_filtered_calls_query(
                                         [filters EXCEPT ![key] = NoValue],
                                         out.request.limit),
                                     store)
            /\ Len(out.query.params) = C4_ExpectedParams(out.request)

\* a collection with a blank and a None entry beside a text selected a row
C4_Witness ==
    /\ out.op = "fetch_filtered_calls"
    /\ out.status = "ok"
    /\ out.request.filters.state = Collection(<<Some(val_b), Some(<<>>), NULL>>)
    /\ out.rows # <<>>
    /\ Len(store) > Len(out.rows)

-----------------------------------------------------------------------------
(* Filter metadata: query_tools.get_filter_metadata behind lru_cache        *)

\* the texts of S in ascending order (ORDER BY column)
RECURSIVE sorted_texts(_)
sorted_texts(S) ==
    IF S = {} THEN <<>>
    ELSE LET least == CHOOSE x \in S : \A y \in S \ {x} : str_less(x, y)
         IN  <<least>> \o sorted_texts(S \ {least})

\* the statement of _fetch_distinct_values(connection, column)
distinct_values_query(column) ==
    Built(<<"SELECT DISTINCT ", column, " FROM service_calls WHERE ", column,
            " IS NOT NULL AND TRIM(", column, ") <> '' ORDER BY ", column>>,
          <<>>, <<>>)

\* _fetch_distinct_values(connection, column)
fetch_distinct_values(table, column) ==
    sorted_texts({Val(table[i][column]) :
                     i \in {j \in DOMAIN table :
                               /\ ~IsNull(table[j][column])
                               /\ str_strip(Val(table[j][column])) # <<>>}})

\* SELECT MIN(date(call_entry_datetime)), MAX(date(call_entry_datetime))
min_max_query ==
    Built(<<"SELECT MIN(date(call_entry_datetime)), MAX(date(call_entry_datetime)) ",
            "FROM service_calls">>, <<>>, <<>>)

min_max(table) ==
    LET dates == {sql_date(Val(table[i].call_entry_datetime)) :
                     i \in {j \in DOMAIN table : ~IsNull(table[j].call_entry_datetime)}}
    IN  IF dates = {} THEN <<NULL, NULL>>
        ELSE <<Some(CHOOSE d \in dates : \A e \in dates : d <= e),
               Some(CHOOSE d \in dates : \A e \in dates : d >= e)>>

\* the body of get_filter_metadata: FilterMetadata computed from the table
compute_metadata(table) ==
    [date_min |-> min_max(table)[1],
     date_max |-> min_max(table)[2],
     options |-> [i \in DOMAIN QT_FILTER_COLUMN_MAP |->
                     fetch_distinct_values(table, QT_FILTER_COLUMN_MAP[i][2])]]

\* the statements one computation of the metadata runs
metadata_queries ==
    <<min_max_query>>
    \o [i \in DOMAIN QT_FILTER_COLUMN_MAP |->
           distinct_values_query(QT_FILTER_COLUMN_MAP[i][2])]

\* @lru_cache(maxsize=1) on a function without arguments: the first call
\* computes the value and keeps it, every later call returns the kept value
get_filter_metadata(kept, table) ==
    IF IsNull(kept) THEN compute_metadata(table) ELSE Val(kept)

\* the options of criterion `key` in a FilterMetadata
options_of(metadata, key) ==
    metadata.options[CHOOSE i \in DOMAIN QT_FILTER_COLUMN_MAP :
                        QT_FILTER_COLUMN_MAP[i][1] = key]

\* query_tools.get_filter_metadata()
GetFilterMetadata ==
    /\ out' = [op |-> "get_filter_metadata",
               metadata |-> get_filter_metadata(cache, store),
               queries |-> IF IsNull(cache) THEN metadata_queries ELSE <<>>]
    /\ cache' = Some(get_filter_metadata(cache, store))
    /\ UNCHANGED <<store, df, txn>>

-----------------------------------------------------------------------------
(* The dashboard script: frontend/app.py                                    *)

DEFAULT_WINDOW_DAYS == 90
CHART_LIMIT == 15

\* the status choices offered while the table has no status
FallbackStatusOptions ==
    << <<"S", "o", "l", "v", "e", "d">>,
       <<"P", "r", "o", "c", "e", "s", "s", "i", "n", "g">>,
       <<"U", "n", "S", "o", "l", "v", "e", "d">>,
       <<"P", "e", "n", "d", "i", "n", "g">> >>

\* the options the multiselect of criterion `key` shows
shown_options(metadata, key) ==
    IF key = "status" /\ options_of(metadata, key) = <<>>
    THEN FallbackStatusOptions
    ELSE options_of(metadata, key)

\* what a multiselect hands to the filters: the chosen options in the order
\* shown, or None when nothing is chosen ("x_filter or None")
multiselect(options, chosen) ==
    IF chosen = {} THEN NoValue
    ELSE Collection([i \in 1..Cardinality(chosen) |->
                        Some(options[CHOOSE k \in chosen :
                                Cardinality({j \in chosen : j < k}) = i - 1])])

\* _prepare_chart_data(filtered_df): the frequency tables among the charts
chart_data(d) ==
    {[top_issues |-> ti, state_distribution |-> sd, engineer_workload |-> ew,
      model_distribution |-> md, instrument_distribution |-> id] :
        ti \in prepare_top_issues(d, TOP_ISSUES_DEFAULT_LIMIT),
        sd \in prepare_distribution(d, "state", NULL),
        ew \in prepare_distribution(d, "visited_engineer_name", Some(CHART_LIMIT)),
        md \in prepare_distribution(d, "model", Some(CHART_LIMIT)),
        id \in prepare_distribution(d, "instrument_status", NULL)}

\* One run of the script.  `today` is the calendar day of the run; the date
\* input returns a tuple of the days selected: the default range, or one of
\* `ranges` (two days, one day while a range is being picked, none once the
\* input is cleared); the user chooses up to `most` of the shown options of
\* at most one criterion among `keys`.
DashboardRun(todays, ranges, keys, most) ==
    \E today \in todays :
        LET metadata == get_filter_metadata(cache, store)
            default_start == IF IsNull(metadata.date_min) THEN today - DEFAULT_WINDOW_DAYS
                             ELSE Val(metadata.date_min)
            default_end == IF IsNull(metadata.date_max) THEN today
                           ELSE Val(metadata.date_max)
        IN  \E date_range \in {<<default_start, default_end>>} \cup ranges,
               key \in keys :
            \E chosen \in {x \in SUBSET DOMAIN shown_options(metadata, key) :
                              Cardinality(x) <= most} :
                LET start_date == IF Len(date_range) = 2 THEN Some(date_range[1])
                                  ELSE DateTuple(date_range)
                    end_date == IF Len(date_range) = 2 THEN Some(date_range[2])
                                ELSE DateTuple(date_range)
                    filters ==
                        Filters([k \in CriterionKeys |->
                                    IF k = key
                                    THEN multiselect(shown_options(metadata, key), chosen)
                                    ELSE NoValue],
                                start_date, end_date)
                    query == fetch_filtered_calls_query(filters, NULL)
                IN  \E rows \in execute(query, store) :
                    \E charts \in IF rows = <<>> THEN {NULL}
                                  ELSE {Some(c) : c \in chart_data(rows)} :
                        /\ out' = [op |-> "dashboard", status |-> "ok",
                                   request |-> Request(filters, NULL),
                                   query |-> query, rows |-> rows,
                                   metadata |-> metadata,
                                   kpis |-> IF rows = <<>> THEN NULL
                                            ELSE Some(compute_kpis(rows)),
                                   charts |-> charts]
                        /\ cache' = Some(metadata)
                        /\ df' = rows
                        /\ UNCHANGED <<store, txn>>

\* GET /calls/all
all_calls_query ==
    Built(<<"SELECT * FROM service_calls ORDER BY call_entry_datetime DESC", " LIMIT ?">>,
          <<>>, <<P_int(ALL_CALLS_LIMIT)>>)

GetAllCalls ==
    \E rows \in execute(all_calls_query, store) :
        /\ out' = FilterOutcome("get_all_calls", "ok",
                                Request(Filters(NoCriteria, NULL, NULL), NULL),
                                all_calls_query, rows)
        /\ UNCHANGED <<store, df, cache, txn>>

-----------------------------------------------------------------------------
(* Ingestion: etl/load_excel_to_db.py and etl/update_daily_data.py          *)

TextColumns ==
    {"state", "model", "forward_employee_name", "visited_engineer_name",
     "nature_of_complaint", "instrument_status", "status", "call_status",
     "customer_name", "customer_complaint"}

\* value.strip() for text, then _normalize_blank_strings
clean_text(x) ==
    IF IsNull(x) THEN NULL
    ELSE IF str_strip(Val(x)) = <<>> THEN NULL
    ELSE Some(str_strip(Val(x)))

\* df.drop_duplicates(subset=["call_id"], keep="last")
drop_duplicates(rows) ==
    LET idx == {i \in DOMAIN rows :
                   \A j \in DOMAIN rows : j > i => rows[j].call_id # rows[i].call_id}
    IN  [k \in DOMAIN Pick(rows, idx) |-> Pick(rows, idx)[k][2]]

\* clean_dataframe(raw_df): rows without a call_id are dropped, text is
\* stripped, blank text becomes None, the last row of each call_id is kept
clean_dataframe(raw_rows) ==
    LET with_id == SelectSeq(raw_rows, LAMBDA r : ~IsNull(r.call_id))
    IN  drop_duplicates(
            [i \in DOMAIN with_id |->
                [c \in DOMAIN with_id[i] |->
                    IF c \in TextColumns THEN clean_text(with_id[i][c])
                    ELSE IF c = "call_id" THEN Val(with_id[i][c])
                    ELSE with_id[i][c]]])

\* INSERT INTO service_calls ... ON CONFLICT(call_id) DO UPDATE SET every other
\* column (upsert) or DO NOTHING (ignore)
insert_row(table, row, conflict_mode) ==
    IF \E i \in DOMAIN table : table[i].call_id = row.call_id
    THEN IF conflict_mode = "upsert"
         THEN [i \in DOMAIN table |->
                  IF table[i].call_id = row.call_id THEN row ELSE table[i]]
         ELSE table
    ELSE Append(table, row)

RECURSIVE executemany(_, _, _)
executemany(table, rows, conflict_mode) ==
    IF rows = <<>> THEN table
    ELSE executemany(insert_row(table, Head(rows), conflict_mode), Tail(rows),
                     conflict_mode)

\* insert_dataframe(connection, df, conflict_mode=...): the table afterwards
\* and the number of changes
insert_dataframe(table, rows, conflict_mode) ==
    [table |-> executemany(table, rows, conflict_mode),
     inserted |->
        IF conflict_mode = "upsert" THEN Len(rows)
        ELSE Cardinality({i \in DOMAIN rows :
                             \A j \in DOMAIN table : table[j].call_id # rows[i].call_id})]

\* pd.concat(frames)
RECURSIVE concat(_)
concat(frames) == IF frames = <<>> THEN <<>> ELSE Head(frames) \o concat(Tail(frames))

\* run_loader(source, db_path, schema_path) on one workbook
RunLoader(workbooks) ==
    \E workbook \in workbooks :
        LET cleaned_df == clean_dataframe(workbook)
            loaded == insert_dataframe(store, cleaned_df, "upsert")
        IN  /\ store' = loaded.table
            /\ out' = [op |-> "run_loader", frame |-> cleaned_df,
                       inserted |-> loaded.inserted]
            /\ UNCHANGED <<df, cache, txn>>

\* run_updates(updates_dir, database_path, schema_path) on a directory of
\* workbooks
RunUpdates(directories) ==
    \E workbooks \in directories :
        LET incremental_df ==
                drop_duplicates(concat([i \in DOMAIN workbooks |->
                                           clean_dataframe(workbooks[i])]))
            loaded == insert_dataframe(store, incremental_df, "ignore")
        IN  /\ store' = loaded.table
            /\ out' = [op |-> "run_updates", frame |-> incremental_df,
                       inserted |-> loaded.inserted]
            /\ UNCHANGED <<df, cache, txn>>

-----------------------------------------------------------------------------
(* Tables and limits that exercise the limit handling of every path         *)

MaxLimitRows == 3

\* rows with a state and a complaint, entered on consecutive days
LimitRow(state, complaint, day) ==
    [BlankRow EXCEPT !.state = state, !.customer_complaint = complaint,
                     !.call_entry_datetime = Some(Day(day))]

LimitRows ==
    <<LimitRow(Some(val_a), Some(c_leak), 1),
      LimitRow(Some(val_b), Some(c_leak), 2),
      LimitRow(Some(val_a), Some(c_noise), 3),
      LimitRow(Some(val_a), NULL, 4),
      LimitRow(NULL, NULL, 5)>>

\* no limit, a negative one, zero, and limits around the sizes of the tables
\* and around the ceiling of the endpoint
LimitInputs ==
    {NULL, Some(-1), Some(0), Some(1), Some(2),
     Some(FILTER_MAX_LIMIT), Some(FILTER_MAX_LIMIT + 1)}

LimitRequests ==
    {Request(Filters(c, NULL, NULL), limit) :
        c \in {NoCriteria, [NoCriteria EXCEPT !["state"] = Scalar(val_a)]},
        limit \in LimitInputs}

LimitInit ==
    /\ store \in TablesUpTo(LimitRows, MaxLimitRows)
    /\ df = store
    /\ cache = NULL
    /\ out = Idle
    /\ txn = NoTxn

\* one call is made on the table drawn
LimitNext ==
    \/ out = Idle /\ BuildServiceCallsQuery(LimitRequests)
    \/ out = Idle /\ FilterCalls(LimitRequests)
    \/ out = Idle /\ FetchFilteredCalls(LimitRequests)
    \/ out = Idle /\ PrepareDistribution({"state"}, LimitInputs)
    \/ out = Idle /\ PrepareTopIssues(LimitInputs)

SpecLimit == LimitInit /\ [][LimitNext]_vars

-----------------------------------------------------------------------------
(* C13: the order of a distribution                                         *)

\* limits that are absent or positive, so that the list is cut as a top-N
DistLimits == {NULL, Some(1), Some(2)}

\* one distribution is computed on the table drawn
DistNext ==
    \/ out = Idle /\ PrepareDistribution({"state"}, DistLimits)
    \/ out = Idle /\ PrepareTopIssues(DistLimits)
    \/ out = Idle /\ GetStats

SpecDist == LimitInit /\ [][DistNext]_vars

\* the groups of a column: the trimmed values that are present and not blank
C13_Groups(rows, column) ==
    {str_strip(Val(rows[i][column])) :
        i \in {j \in DOMAIN rows : /\ ~IsNull(rows[j][column])
                                   /\ str_strip(Val(rows[j][column])) # <<>>}}

C13_Count(rows, column, label) ==
    Cardinality({i \in DOMAIN rows : /\ ~IsNull(rows[i][column])
                                     /\ str_strip(Val(rows[i][column])) = label})

\* count descending, then value ascending
C13_Before(rows, column, a, b) ==
    \/ C13_Count(rows, column, a) > C13_Count(rows, column, b)
    \/ /\ C13_Count(rows, column, a) = C13_Count(rows, column, b)
       /\ str_less(a, b)

\* the one table in that order
C13_Ordered(rows, column) ==
    LET groups == C13_Groups(rows, column)
        order == CHOOSE o \in [1..Cardinality(groups) -> groups] :
                     \A i, j \in DOMAIN o : i < j => C13_Before(rows, column, o[i], o[j])
    IN  [i \in DOMAIN order |->
            [label |-> order[i], value |-> C13_Count(rows, column, order[i])]]

C13_TopN(table, limit) ==
    IF IsNull(limit) \/ Val(limit) >= Len(table) THEN table
    ELSE SubSeq(table, 1, Val(limit))

\* C13: a distribution lists the groups of the trimmed value, absent and blank
\* values in none, by count descending and, for equal counts, by value
\* ascending; a top-N is the first N groups of that order.
C13_TiesByValueAscending ==
    /\ out.op = "prepare_distribution" =>
           out.data = C13_TopN(C13_Ordered(df, out.request.column), out.request.limit)
    /\ out.op = "prepare_top_issues" =>
           out.data = C13_TopN(C13_Ordered(df, "customer_complaint"),
                               IF IsNull(out.request.limit)
                               THEN Some(TOP_ISSUES_DEFAULT_LIMIT) ELSE out.request.limit)
    /\ out.op = "get_stats" =>
           /\ out.state_distribution = C13_Ordered(store, "state")
           /\ out.model_distribution = C13_Ordered(store, "model")
           /\ out.engineer_workload =
                  C13_TopN(C13_Ordered(store, "visited_engineer_name"),
                           Some(ENGINEER_WORKLOAD_LIMIT))

\* what the three paths do guarantee: the list is a prefix of a listing of all
\* the groups, each with its count, in an order of non-increasing count
C13_IsListing(data, rows, column) ==
    /\ \A i \in DOMAIN data :
           /\ data[i].label \in C13_Groups(rows, column)
           /\ data[i].value = C13_Count(rows, column, data[i].label)
    /\ \A i, j \in DOMAIN data : i < j =>
           /\ data[i].label # data[j].label
           /\ data[i].value >= data[j].value
    /\ \A l \in C13_Groups(rows, column) :
           (\A i \in DOMAIN data : data[i].label # l) =>
               \A i \in DOMAIN data : data[i].value >= C13_Count(rows, column, l)

C13_CountDescending ==
    /\ out.op = "prepare_distribution" =>
           /\ C13_IsListing(out.data, df, out.request.column)
           /\ Len(out.data) = Len(C13_TopN(C13_Ordered(df, out.request.column),
                                           out.request.limit))
    /\ out.op = "prepare_top_issues" => C13_IsListing(out.data, df, "customer_complaint")
    /\ out.op = "get_stats" => C13_IsListing(out.state_distribution, store, "state")

-----------------------------------------------------------------------------
(* C14: the filter without criteria and the full listing                    *)

MaxListRows == 3

\* two rows entered at the same time, a later one, and one without entry time
ListRows ==
    <<LimitRow(Some(val_a), NULL, 1),
      LimitRow(Some(val_b), NULL, 1),
      LimitRow(Some(val_a), NULL, 2),
      BlankRow>>

\* no criteria under each limit, and one request with a criterion
ListRequests ==
    {Request(Filters(NoCriteria, NULL, NULL), limit) :
        limit \in {NULL, Some(1), Some(2), Some(MaxListRows)}}
    \cup {Request(Filters([NoCriteria EXCEPT !["state"] = Scalar(val_a)], NULL, NULL), NULL)}

ListInit ==
    /\ store \in TablesUpTo(ListRows, MaxListRows)
    /\ df = store
    /\ cache = NULL
    /\ out = Idle
    /\ txn = NoTxn

\* one request is served on the table drawn
ListNext ==
    \/ out = Idle /\ GetAllCalls
    \/ out = Idle /\ FilterCalls(ListRequests)

SpecList == ListInit /\ [][ListNext]_vars

C14_NoCriteria(request) ==
    /\ \A k \in CriterionKeys : request.filters[k] = NoValue
    /\ IsNull(request.filters.start_date)
    /\ IsNull(request.filters.end_date)

C14_IsPrefix(short, long) ==
    /\ Len(short) <= Len(long)
    /\ short = SubSeq(long, 1, Len(short))

C14_MostRecentFirst(rows) ==
    \A i, j \in DOMAIN rows : i < j => entry_desc_ok(rows[i], rows[j])

\* the statement fixes the order of the table: no two rows share an entry
\* time or lack one together
C14_OrderDetermined(table) ==
    \A i, j \in DOMAIN table :
        i # j => table[i].call_entry_datetime # table[j].call_entry_datetime

C14_Limit(request) ==
    IF IsNull(request.limit) THEN FILTER_DEFAULT_LIMIT ELSE Val(request.limit)

-----------------------------------------------------------------------------
(* C15: date bounds                                                         *)

\* the calendar day a timestamp falls on: the day whose midnight is the last
\* one not after it
C15_CalendarDay(ts) ==
    CHOOSE d \in 0..(ts + 1) : Day(d) <= ts /\ ts < Day(d + 1)

C15_HasBound(request) ==
    ~IsNull(request.filters.start_date) \/ ~IsNull(request.filters.end_date)

C15_InBounds(row, filters) ==
    /\ IsNull(filters.start_date) \/
           C15_CalendarDay(Val(row.call_entry_datetime)) >= Val(filters.start_date)
    /\ IsNull(filters.end_date) \/
           C15_CalendarDay(Val(row.call_entry_datetime)) <= Val(filters.end_date)

\* C15: under a start and/or end date (and no other criterion) either filter
\* path returns a stored record with an entry time if and only if the
\* calendar day of that time is on or after the start date and on or before
\* the end date, whatever its time of day.
C15_DateBoundsInclusive ==
    (IsFilterOp /\ out.status = "ok" /\ C15_HasBound(out.request)
        /\ \A k \in CriterionKeys : out.request.filters[k] = NoValue) =>
        \A i \in DOMAIN store :
            ~IsNull(store[i].call_entry_datetime) =>
                ((\E j \in DOMAIN out.rows : out.rows[j] = store[i])
                    <=> C15_InBounds(store[i], out.request.filters))

\* the end date is day 1: the record entered on day 1 at noon is returned and
\* the one entered on day 2 at midnight is not
C15_Witness ==
    /\ IsFilterOp /\ out.status = "ok"
    /\ out.request.filters.end_date = Some(1)
    /\ IsNull(out.request.filters.start_date)
    /\ \E i \in DOMAIN store :
           store[i].call_entry_datetime = Some(Day(2))
    /\ Len(out.rows) = 1
    /\ out.rows[1].call_entry_datetime = Some(Day(1) + 12 * SECONDS_PER_HOUR)

-----------------------------------------------------------------------------
(* The latest update: calls.get_latest_update                               *)

LatestUpdate(source, file_name, rows_processed, new_rows, updated_at, fallback, metadata) ==
    [source |-> source, file_name |-> file_name, rows_processed |-> rows_processed,
     new_rows |-> new_rows, updated_at |-> updated_at, fallback |-> fallback,
     metadata |-> metadata]

\* ORDER BY updated_at DESC: r may come first
updated_desc_ok(r, others) ==
    \A i \in DOMAIN others :
        \/ IsNull(others[i].updated_at)
        \/ ~IsNull(r.updated_at) /\ Val(r.updated_at) >= Val(others[i].updated_at)

\* _latest_update_from_history(db): the history is NULL when the table
\* update_history does not exist, else its rows.  Every result it can return.
latest_update_from_history(history) ==
    IF IsNull(history) THEN {NULL}
    ELSE IF Val(history) = <<>> THEN {NULL}
    ELSE {Some(LatestUpdate("update_history", Val(history)[i].file_name,
                            Val(history)[i].rows_processed, Val(history)[i].new_rows,
                            Val(history)[i].updated_at, FALSE, NULL)) :
             i \in {k \in DOMAIN Val(history) :
                       updated_desc_ok(Val(history)[k], Val(history))}}

\* SQL MAX(column): NULL without a non-NULL value
sql_max(table, column) ==
    LET present == {Val(table[i][column]) :
                       i \in {k \in DOMAIN table : ~IsNull(table[k][column])}}
    IN  IF present = {} THEN NULL
        ELSE Some(CHOOSE x \in present : \A y \in present : y <= x)

\* _fallback_latest_update(db)
fallback_latest_update(table) ==
    LET total_rows == Len(table)
        last_call_entry == sql_max(table, "call_entry_datetime")
        last_call_solved == sql_max(table, "call_solved_datetime")
    IN  IF total_rows = 0 THEN NULL
        ELSE Some(LatestUpdate("service_calls", NULL, Some(total_rows), NULL,
                               last_call_entry, TRUE,
                               Some([last_call_entry |-> last_call_entry,
                                     last_call_solved |-> last_call_solved,
                                     total_rows |-> total_rows])))

\* a get_latest_update that looks at the store first
get_latest_update_store_first(history, table) ==
    IF ~IsNull(fallback_latest_update(table))
    THEN {[status |-> "ok", body |-> fallback_latest_update(table)]}
    ELSE {IF IsNull(h) THEN [status |-> "404", body |-> NULL]
          ELSE [status |-> "ok", body |-> h] : h \in latest_update_from_history(history)}

\* get_latest_update(db): every response it can give
get_latest_update(history, table) ==
    {IF ~IsNull(h) THEN [status |-> "ok", body |-> h]
     ELSE IF ~IsNull(fallback_latest_update(table))
     THEN [status |-> "ok", body |-> fallback_latest_update(table)]
     ELSE [status |-> "404", body |-> NULL] :
        h \in latest_update_from_history(history)}

\* GET /calls/latest_update.  Nothing in the program writes update_history:
\* its content is given with the request.
GetLatestUpdate(histories) ==
    \E history \in histories :
        \E response \in get_latest_update(history, store) :
            /\ out' = [op |-> "get_latest_update", status |-> response.status,
                       request |-> [history |-> history], body |-> response.body]
            /\ UNCHANGED <<store, df, cache, txn>>

HistoryRow(file_name, rows_processed, updated_at) ==
    [file_name |-> Some(file_name), rows_processed |-> Some(rows_processed),
     new_rows |-> Some(rows_processed), updated_at |-> updated_at]

\* no table, an empty table, and tables of rows updated on days 1 and 2, at
\* the same time, or with no time
Histories ==
    {NULL, Some(<<>>)} \cup
    {Some(h) : h \in {<<HistoryRow(val_a, 1, Some(Day(1)))>>,
                      <<HistoryRow(val_a, 1, Some(Day(1))), HistoryRow(val_b, 2, Some(Day(2)))>>,
                      <<HistoryRow(val_b, 2, Some(Day(2))), HistoryRow(val_a, 1, Some(Day(1)))>>,
                      <<HistoryRow(val_a, 1, Some(Day(1))), HistoryRow(val_b, 2, Some(Day(1)))>>,
                      <<HistoryRow(val_a, 1, NULL), HistoryRow(val_b, 2, Some(Day(1)))>>,
                      <<HistoryRow(val_a, 1, NULL)>>}}

LatestNext == out = Idle /\ GetLatestUpdate(Histories)

SpecLatest == ListInit /\ [][LatestNext]_vars

-----------------------------------------------------------------------------
(* C18: history first, then the store, then NotFound                        *)

C18_HasHistory(history) == ~IsNull(history) /\ Len(Val(history)) >= 1

\* no history row has a later update time than row
C18_MostRecent(row, rows) ==
    \A i \in DOMAIN rows :
        ~IsNull(rows[i].updated_at) =>
            ~IsNull(row.updated_at) /\ Val(rows[i].updated_at) <= Val(row.updated_at)

\* the latest entry time of the table, absent when no record has one
C18_IsMaxEntry(x, table) ==
    IF \A i \in DOMAIN table : IsNull(table[i].call_entry_datetime)
    THEN IsNull(x)
    ELSE /\ ~IsNull(x)
         /\ \E i \in DOMAIN table : table[i].call_entry_datetime = x
         /\ \A i \in DOMAIN table :
                ~IsNull(table[i].call_entry_datetime) =>
                    Val(table[i].call_entry_datetime) <= Val(x)

\* C18: with a history table of at least one row the response is its most
\* recent row, fallback false; else with a store of at least one row it is the
\* summary of the store (source "service_calls", fallback true, rows_processed
\* the row count, updated_at the maximum call_entry_datetime); NotFound
\* exactly when there is no history row and the store is empty.
C18_HistoryThenStoreThenNotFound ==
    out.op = "get_latest_update" =>
        LET history == out.request.history
        IN  /\ C18_HasHistory(history) =>
                   /\ out.status = "ok"
                   /\ Val(out.body).fallback = FALSE
                   /\ Val(out.body).source = "update_history"
                   /\ \E i \in DOMAIN Val(history) :
                          /\ C18_MostRecent(Val(history)[i], Val(history))
                          /\ Val(out.body).file_name = Val(history)[i].file_name
                          /\ Val(out.body).rows_processed = Val(history)[i].rows_processed
                          /\ Val(out.body).new_rows = Val(history)[i].new_rows
                          /\ Val(out.body).updated_at = Val(history)[i].updated_at
            /\ (~C18_HasHistory(history) /\ Len(store) >= 1) =>
                   /\ out.status = "ok"
                   /\ Val(out.body).fallback = TRUE
                   /\ Val(out.body).source = "service_calls"
                   /\ Val(out.body).rows_processed = Some(Len(store))
                   /\ C18_IsMaxEntry(Val(out.body).updated_at, store)
            /\ out.status = "404" <=> (~C18_HasHistory(history) /\ Len(store) = 0)

\* the history table exists and is empty, the store has records entered on
\* days 1 and 2: the summary of the store is returned
C18_Witness ==
    /\ out.op = "get_latest_update"
    /\ out.request.history = Some(<<>>)
    /\ Len(store) = 3
    /\ \E i \in DOMAIN store : store[i].call_entry_datetime = Some(Day(1))
    /\ out.status = "ok"
    /\ Val(out.body).fallback = TRUE
    /\ Val(out.body).rows_processed = Some(3)
    /\ Val(out.body).updated_at = Some(Day(2))

-----------------------------------------------------------------------------
(* The remaining aggregates of query_tools.py                               *)

\* the numbers of S in ascending order
RECURSIVE sort_ascending(_)
sort_ascending(S) ==
    IF S = {} THEN <<>>
    ELSE LET least == CHOOSE x \in S : \A y \in S : x <= y
         IN  <<least>> \o sort_ascending(S \ {least})

\* dropna(subset=[column]), groupby(date).size(), sort_values("date")
calls_per_day(d, column) ==
    LET present == SelectSeq(d, LAMBDA row : ~IsNull(row[column]))
        dates == sort_ascending({sql_date(Val(present[i][column])) : i \in DOMAIN present})
    IN  [k \in DOMAIN dates |->
            [date |-> dates[k],
             count |-> Cardinality({i \in DOMAIN present :
                                       sql_date(Val(present[i][column])) = dates[k]})]]

\* a time series that reports an empty frame as one day without calls
prepare_calls_logged_per_day_placeholder(d) ==
    IF d = <<>> THEN <<[date |-> 0, count |-> 0]>>
    ELSE calls_per_day(d, "call_entry_datetime")

\* prepare_calls_logged_per_day(df)
prepare_calls_logged_per_day(d) ==
    IF d = <<>> THEN <<>> ELSE calls_per_day(d, "call_entry_datetime")

\* prepare_calls_closed_per_day(df)
prepare_calls_closed_per_day(d) ==
    IF d = <<>> THEN <<>> ELSE calls_per_day(d, "call_solved_datetime")

\* prepare_resolution_distribution(df): one row per resolved record, its
\* duration in seconds
prepare_resolution_distribution(d) ==
    LET resolutions == resolution_days(d)
    IN  IF resolutions = <<>> THEN <<>>
        ELSE [i \in DOMAIN resolutions |-> [resolution_days |-> resolutions[i]]]

\* prepare_map_points(df): the rows with both coordinates, in range
prepare_map_points(d) ==
    IF d = <<>> THEN <<>>
    ELSE LET lat_lon == SelectSeq(d, LAMBDA row :
                            /\ ~IsNull(row.geo_loc_lat) /\ ~IsNull(row.geo_loc_lon)
                            /\ Val(row.geo_loc_lat) >= -90 /\ Val(row.geo_loc_lat) <= 90
                            /\ Val(row.geo_loc_lon) >= -180 /\ Val(row.geo_loc_lon) <= 180)
         IN  [i \in DOMAIN lat_lon |->
                 [geo_loc_lat |-> lat_lon[i].geo_loc_lat,
                  geo_loc_lon |-> lat_lon[i].geo_loc_lon,
                  state |-> lat_lon[i].state, model |-> lat_lon[i].model,
                  visited_engineer_name |-> lat_lon[i].visited_engineer_name]]

\* the dashboard prepares one table of its frame
PrepareTable(op, data) ==
    /\ out' = [op |-> op, status |-> "ok", data |-> data]
    /\ UNCHANGED <<store, df, cache, txn>>

PrepareCallsLoggedPerDay ==
    PrepareTable("prepare_calls_logged_per_day", prepare_calls_logged_per_day(df))

PrepareCallsClosedPerDay ==
    PrepareTable("prepare_calls_closed_per_day", prepare_calls_closed_per_day(df))

PrepareResolutionDistribution ==
    PrepareTable("prepare_resolution_distribution", prepare_resolution_distribution(df))

PrepareMapPoints == PrepareTable("prepare_map_points", prepare_map_points(df))

MaxAggregateRows == 2

\* a row of service_calls with its coordinates (whole degrees)
AggregateRow(state, entry, solved, lat, lon) ==
    [c \in DOMAIN BlankRow \cup {"geo_loc_lat", "geo_loc_lon"} |->
        IF c = "state" THEN state
        ELSE IF c = "call_entry_datetime" THEN entry
        ELSE IF c = "call_solved_datetime" THEN solved
        ELSE IF c = "geo_loc_lat" THEN lat
        ELSE IF c = "geo_loc_lon" THEN lon
        ELSE BlankRow[c]]

AggregateRows ==
    <<AggregateRow(Some(val_a), Some(Day(1)), Some(Day(2)), Some(12), Some(77)),
      AggregateRow(Some(val_b), Some(Day(1) + 1), NULL, Some(91), Some(77)),
      AggregateRow(Some(val_a), Some(Day(2)), Some(Day(2)), NULL, Some(77)),
      AggregateRow(NULL, NULL, NULL, NULL, NULL)>>

AggregateInit ==
    /\ store \in TablesUpTo(AggregateRows, MaxAggregateRows)
    /\ df = store
    /\ cache = NULL
    /\ out = Idle
    /\ txn = NoTxn

\* one aggregate is computed on the record set drawn
AggregateNext ==
    \/ out = Idle /\ ComputeKpis
    \/ out = Idle /\ GetStats
    \/ out = Idle /\ PrepareDistribution({"state", "model"}, {NULL, Some(CHART_LIMIT)})
    \/ out = Idle /\ PrepareTopIssues({NULL})
    \/ out = Idle /\ PrepareCallsLoggedPerDay
    \/ out = Idle /\ PrepareCallsClosedPerDay
    \/ out = Idle /\ PrepareResolutionDistribution
    \/ out = Idle /\ PrepareMapPoints

SpecAggregates == AggregateInit /\ [][AggregateNext]_vars

-----------------------------------------------------------------------------
(* C19: aggregates of an empty record set                                   *)

C19_TableOps ==
    {"prepare_distribution", "prepare_top_issues", "prepare_calls_logged_per_day",
     "prepare_calls_closed_per_day", "prepare_resolution_distribution",
     "prepare_map_points"}

\* C19: on an empty record set compute_kpis returns zero for every KPI, every
\* distribution, top-issues list, per-day series and resolution distribution
\* is an empty table, prepare_map_points has no points, and get_stats returns
\* zero counts, a null average and empty distributions; none of them fails.
C19_EmptyInEmptyOut ==
    /\ (df = <<>> /\ out.op = "compute_kpis") =>
           out.kpis = [total_calls |-> 0, closed_calls |-> 0, pending_calls |-> 0,
                       avg_resolution_days |-> 0, sla_compliance |-> 0,
                       repeated_issues |-> 0]
    /\ (df = <<>> /\ out.op \in C19_TableOps) => (out.status = "ok" /\ out.data = <<>>)
    /\ (store = <<>> /\ out.op = "get_stats") =>
           /\ out.stats = [total_calls |-> 0, closed_calls |-> 0, pending_calls |-> 0,
                           average_resolution_hours |-> NULL]
           /\ out.state_distribution = <<>>
           /\ out.model_distribution = <<>>
           /\ out.engineer_workload = <<>>
    /\ (df = <<>> /\ out = Idle) =>
           /\ ENABLED ComputeKpis /\ ENABLED GetStats
           /\ ENABLED PrepareDistribution({"state"}, {NULL})
           /\ ENABLED PrepareTopIssues({NULL})
           /\ ENABLED PrepareCallsLoggedPerDay /\ ENABLED PrepareCallsClosedPerDay
           /\ ENABLED PrepareResolutionDistribution /\ ENABLED PrepareMapPoints

\* the per-day series of an empty frame has been prepared
C19_Witness ==
    /\ df = <<>>
    /\ out.op = "prepare_calls_logged_per_day"
    /\ out.data = <<>>

-----------------------------------------------------------------------------
(* C20: dates that cannot be parsed                                         *)

d_soon == <<"s", "o", "o", "n">>

\* no date, a date object, the ISO text of a date, text that is no date, and
\* the empty text
DateInputs == {NULL, Some(1), DateString(isoformat(1)), DateString(d_soon), DateString(<<>>)}

DateRequests ==
    {Request(Filters(NoCriteria, start, end), NULL) :
        start \in DateInputs, end \in DateInputs}

\* one request is served on the table drawn
DateNext ==
    \/ out = Idle /\ BuildServiceCallsQuery(DateRequests)
    \/ out = Idle /\ FetchFilteredCalls(DateRequests)
    \/ out = Idle /\ FilterCalls(DateRequests)

SpecDates == FilterInit /\ [][DateNext]_vars

C20_Unparsable(x) == ~date_parses(x)

C20_HasUnparsableDate(request) ==
    \/ C20_Unparsable(request.filters.start_date)
    \/ C20_Unparsable(request.filters.end_date)

C20_IsBuilderOp ==
    out.op \in {"build_service_calls_query", "fetch_filtered_calls", "filter_calls"}

\* C20: a request with a start or end date that is no calendar date is
\* rejected: no statement is built and nothing is returned for it.
C20_UnparsableDateRejected ==
    (C20_IsBuilderOp /\ C20_HasUnparsableDate(out.request)) =>
        /\ out.status # "ok"
        /\ out.query.status # "ok"

\* what does hold: the endpoint rejects such a request before it calls its
\* builder; the builders called by themselves bind the text as a parameter,
\* or ignore it when it is empty
C20_OnlyEndpointValidates ==
    /\ (out.op = "filter_calls" /\ C20_HasUnparsableDate(out.request)) =>
           out.status = "422"
    /\ (out.op \in {"build_service_calls_query", "fetch_filtered_calls"}
            /\ C20_HasUnparsableDate(out.request)) =>
           /\ out.status = "ok"
           /\ Len(out.query.conditions) =
                  Cardinality({k \in {"start_date", "end_date"} :
                                  /\ out.request.filters[k] # <<>>
                                  /\ out.request.filters[k] # DateString(<<>>)})
           /\ \A k \in {"start_date", "end_date"} :
                  (C20_Unparsable(out.request.filters[k])
                       /\ out.request.filters[k] # DateString(<<>>)) =>
                      \E i \in DOMAIN out.query.params :
                          /\ out.query.params[i].t = "text"
                          /\ out.query.params[i].v = out.request.filters[k][2]

-----------------------------------------------------------------------------
(* C6: non-positive limits                                                  *)

TakesLimit ==
    out.op \in {"build_service_calls_query", "filter_calls", "fetch_filtered_calls",
                "prepare_distribution", "prepare_top_issues"}

\* C6: on every path that accepts a limit, a call with a limit of zero or
\* below fails with an invalid-argument error and returns nothing.
C6_NonPositiveLimitRejected ==
    (TakesLimit /\ ~IsNull(out.request.limit) /\ Val(out.request.limit) <= 0) =>
        out.status \in {"ValueError", "422"}

\* what does hold: the two filter builders and the endpoint reject it
C6_FilterPathsReject ==
    (/\ out.op \in {"build_service_calls_query", "filter_calls", "fetch_filtered_calls"}
     /\ ~IsNull(out.request.limit) /\ Val(out.request.limit) <= 0) =>
        /\ out.status \in {"ValueError", "422"}
        /\ out.rows = <<>>

-----------------------------------------------------------------------------
(* Ingestion interleaved with dashboard runs and API requests               *)

MaxWorkbookRows == 2
MaxSelected == 2

\* a workbook row as read: the call_id may be missing, text is unstripped
RawRow(call_id, state, day) ==
    [BlankRow EXCEPT !.call_id = call_id, !.state = state,
                     !.call_entry_datetime = Some(Day(day))]

RawRows ==
    {RawRow(Some(1), Some(<<"T", "X">>), 1),
     RawRow(Some(1), Some(<<"C", "A", " ">>), 1),
     RawRow(Some(2), Some(<<" ">>), 2),
     RawRow(NULL, Some(<<"T", "X">>), 2)}

Workbooks == SeqsUpTo(RawRows, MaxWorkbookRows)

\* an updates directory: empty, or one workbook, or two one-row workbooks
UpdateDirectories ==
    {<<>>} \cup {<<w>> : w \in Workbooks}
    \cup {<<(<<r1>>), (<<r2>>)>> : r1, r2 \in RawRows}

\* the API is asked for everything, with and without a limit
AppApiRequests ==
    {Request(Filters(NoCriteria, NULL, NULL), limit) :
        limit \in {NULL, Some(0), Some(1), Some(FILTER_MAX_LIMIT),
                   Some(FILTER_MAX_LIMIT + 1)}}

AppInit ==
    /\ store = <<>>
    /\ df = <<>>
    /\ cache = NULL
    /\ out = Idle
    /\ txn = NoTxn

AppDashboardRun == DashboardRun({3}, {<<1, 1>>}, {"state", "status"}, MaxSelected)

AppNext ==
    \/ RunLoader(Workbooks)
    \/ RunUpdates(UpdateDirectories)
    \/ AppDashboardRun
    \/ GetAllCalls
    \/ FilterCalls(AppApiRequests)

SpecApp == AppInit /\ [][AppNext]_vars

-----------------------------------------------------------------------------
(* C16: one record per call_id, the latest ingested                         *)

C16_IsIngestion == out.op \in {"run_loader", "run_updates"}

C16_OneRecordPerCallId ==
    \A i, j \in DOMAIN store : store[i].call_id = store[j].call_id => i = j

\* C16: after an ingestion run, full or incremental, the store holds exactly
\* one record per call_id, and for every call_id of the run that record has
\* the fields of the occurrence just ingested.
C16_LatestOccurrenceWins ==
    C16_IsIngestion =>
        /\ C16_OneRecordPerCallId
        /\ \A i \in DOMAIN out.frame :
               \E j \in DOMAIN store : store[j] = out.frame[i]

\* what does hold: never two records of one call_id; a full load stores the
\* occurrences it ingests; an incremental update stores those whose call_id is
\* new and leaves every record already stored as it was
C16_UpsertOnFullLoadOnly ==
    /\ C16_OneRecordPerCallId
    /\ out.op = "run_loader" =>
           \A i \in DOMAIN out.frame : \E j \in DOMAIN store : store[j] = out.frame[i]
    /\ out.op = "run_updates" =>
           /\ out.inserted =
                  Cardinality({j \in DOMAIN store :
                                  /\ j > Len(store) - out.inserted
                                  /\ \E i \in DOMAIN out.frame : store[j] = out.frame[i]})
           /\ \A i \in DOMAIN out.frame :
                  \E j \in DOMAIN store : store[j].call_id = out.frame[i].call_id

-----------------------------------------------------------------------------
(* Connections: database/db_connection.py and calls.get_db                  *)

MaxUnits == 2

\* the units of work and the way each gets its connection
ApiCallers ==
    {"get_all_calls", "get_call_by_id", "filter_calls", "get_stats", "get_latest_update"}

ScopeCallers == {"get_filter_metadata", "fetch_filtered_calls"}

\* the most statements a unit of work runs on its connection
statements_of(caller) ==
    IF caller = "get_stats" THEN 4
    ELSE IF caller = "get_latest_update" THEN 3
    ELSE IF caller = "get_filter_metadata" THEN Len(metadata_queries)
    ELSE IF caller = "fetch_filtered_calls" THEN 3
    ELSE 1

\* a unit of work at position pc; opened, configured and closed count the
\* connections of the process so far
Unit(caller, pc, raised, statements, opened, configured, closed) ==
    [op |-> "unit_of_work", caller |-> caller,
     via |-> IF caller \in ApiCallers THEN "get_db" ELSE "connection_scope",
     pc |-> pc, raised |-> raised, statements |-> statements,
     opened |-> opened, configured |-> configured, closed |-> closed]

InUnit(pc) == out.op = "unit_of_work" /\ out.pc = pc

\* get_connection: sqlite3.connect(target), which opens the connection or
\* raises, called by get_db and connection_scope before their try
Connect ==
    /\ out = Idle \/ (InUnit("done") /\ out.opened < MaxUnits)
    /\ \E caller \in ApiCallers \cup ScopeCallers, raises \in BOOLEAN :
           LET opened == IF out = Idle THEN 0 ELSE out.opened
               configured == IF out = Idle THEN 0 ELSE out.configured
               closed == IF out = Idle THEN 0 ELSE out.closed
           IN  out' = IF raises
                      THEN Unit(caller, "done", TRUE, 0, opened, configured, closed)
                      ELSE Unit(caller, "journal_mode", FALSE, 0, opened + 1,
                                configured, closed)
    /\ UNCHANGED <<store, df, cache, txn>>

\* _configure_connection: PRAGMA journal_mode=WAL.  An exception leaves
\* get_connection, and get_db / connection_scope with it: their try has not
\* been entered
ConfigureJournalMode ==
    /\ InUnit("journal_mode")
    /\ \E raises \in BOOLEAN :
           out' = IF raises THEN [out EXCEPT !.pc = "done", !.raised = TRUE]
                  ELSE [out EXCEPT !.pc = "foreign_keys"]
    /\ UNCHANGED <<store, df, cache, txn>>

\* _configure_connection: PRAGMA foreign_keys=ON, then the connection is
\* yielded inside try
ConfigureForeignKeys ==
    /\ InUnit("foreign_keys")
    /\ \E raises \in BOOLEAN :
           out' = IF raises THEN [out EXCEPT !.pc = "done", !.raised = TRUE]
                  ELSE [out EXCEPT !.pc = "body", !.configured = @ + 1]
    /\ UNCHANGED <<store, df, cache, txn>>

\* the unit of work runs one statement on the connection
ExecuteStatement ==
    /\ InUnit("body")
    /\ out.statements < statements_of(out.caller)
    /\ \E raises \in BOOLEAN :
           out' = IF raises THEN [out EXCEPT !.pc = "finally", !.raised = TRUE]
                  ELSE [out EXCEPT !.statements = @ + 1]
    /\ UNCHANGED <<store, df, cache, txn>>

\* the unit of work returns (or raises HTTPException) after its statements
ReturnFromBody ==
    /\ InUnit("body")
    /\ out.statements >= 1
    /\ \E raises \in BOOLEAN :
           out' = [out EXCEPT !.pc = "finally", !.raised = raises]
    /\ UNCHANGED <<store, df, cache, txn>>

\* finally: connection.close()
CloseConnection ==
    /\ InUnit("finally")
    /\ out' = [out EXCEPT !.pc = "done", !.closed = @ + 1]
    /\ UNCHANGED <<store, df, cache, txn>>

ConnInit ==
    /\ store = <<>>
    /\ df = <<>>
    /\ cache = NULL
    /\ out = Idle
    /\ txn = NoTxn

ConnNext ==
    \/ Connect
    \/ ConfigureJournalMode
    \/ ConfigureForeignKeys
    \/ ExecuteStatement
    \/ ReturnFromBody
    \/ CloseConnection

SpecConn == ConnInit /\ [][ConnNext]_vars

-----------------------------------------------------------------------------
(* C17: every connection is closed                                          *)

\* C17: when a unit of work has ended, normally, by a failing statement or by
\* a failing pragma while the new connection is configured, every connection
\* opened so far has been closed.
C17_ClosedOnEveryExit ==
    InUnit("done") => out.closed = out.opened

\* what does hold: a connection that came through its configuration is closed
\* when its unit of work ends, whether the unit returned or raised; one whose
\* configuration raised is never closed
C17_ClosedOnceConfigured ==
    /\ InUnit("done") => out.closed = out.configured
    /\ InUnit("finally") => out.closed + 1 = out.configured
    /\ out.op = "unit_of_work" => out.configured <= out.opened

-----------------------------------------------------------------------------
(* Ingestion running beside API requests                                    *)

MaxRuns == 2

\* the transaction of insert_dataframe: "with connection:
\* connection.executemany(sql, rows)".  before is the table when it began,
\* batch the frame, todo the rows not yet inserted, table the writer's view.
Txn(state, runs, conflict_mode, before, batch, todo, table) ==
    [state |-> state, runs |-> runs, conflict_mode |-> conflict_mode,
     before |-> before, batch |-> batch, todo |-> todo, table |-> table]

\* the frames an ingestion run can hand to insert_dataframe
ingestion_frames(workbooks, directories) ==
    {[conflict_mode |-> "upsert", frame |-> clean_dataframe(w)] : w \in workbooks}
    \cup {[conflict_mode |-> "ignore",
           frame |-> drop_duplicates(concat([i \in DOMAIN ws |-> clean_dataframe(ws[i])]))] :
             ws \in directories}

\* run_loader / run_updates reach insert_dataframe with a frame that is not
\* empty; the first INSERT opens the transaction
IngestBegin(workbooks, directories) ==
    /\ txn.state # "open"
    /\ (IF txn = NoTxn THEN 0 ELSE txn.runs) < MaxRuns
    /\ \E run \in ingestion_frames(workbooks, directories) :
           /\ run.frame # <<>>
           /\ txn' = Txn("open", (IF txn = NoTxn THEN 0 ELSE txn.runs) + 1,
                         run.conflict_mode, store, run.frame, run.frame, store)
    /\ UNCHANGED <<store, df, cache, out>>

\* executemany inserts the next row; only the writer sees it
IngestRow ==
    /\ txn.state = "open"
    /\ txn.todo # <<>>
    /\ txn' = [txn EXCEPT !.todo = Tail(@),
                          !.table = insert_row(@, Head(txn.todo), txn.conflict_mode)]
    /\ UNCHANGED <<store, df, cache, out>>

\* leaving "with connection:" commits
IngestCommit ==
    /\ txn.state = "open"
    /\ txn.todo = <<>>
    /\ store' = txn.table
    /\ txn' = [txn EXCEPT !.state = "committed"]
    /\ UNCHANGED <<df, cache, out>>

\* executemany raises: "with connection:" rolls back
IngestRollback ==
    /\ txn.state = "open"
    /\ txn.todo # <<>>
    /\ txn' = [txn EXCEPT !.state = "rolled_back", !.table = txn.before]
    /\ UNCHANGED <<store, df, cache, out>>

\* get_stats statement by statement; every statement reads the table as
\* committed when it runs
StatsTotals ==
    /\ out = Idle
    /\ out' = [op |-> "get_stats", pc |-> "state", stats |-> get_stats_totals(store),
               state_distribution |-> <<>>, model_distribution |-> <<>>,
               engineer_workload |-> <<>>]
    /\ UNCHANGED <<store, df, cache, txn>>

StatsStateDistribution ==
    /\ out.op = "get_stats" /\ out.pc = "state"
    /\ \E sd \in build_distribution(store, "state", NULL) :
           out' = [out EXCEPT !.pc = "model", !.state_distribution = sd]
    /\ UNCHANGED <<store, df, cache, txn>>

StatsModelDistribution ==
    /\ out.op = "get_stats" /\ out.pc = "model"
    /\ \E md \in build_distribution(store, "model", NULL) :
           out' = [out EXCEPT !.pc = "engineers", !.model_distribution = md]
    /\ UNCHANGED <<store, df, cache, txn>>

StatsEngineerWorkload ==
    /\ out.op = "get_stats" /\ out.pc = "engineers"
    /\ \E ew \in build_distribution(store, "visited_engineer_name",
                                    Some(ENGINEER_WORKLOAD_LIMIT)) :
           out' = [out EXCEPT !.pc = "done", !.engineer_workload = ew]
    /\ UNCHANGED <<store, df, cache, txn>>

\* one request is served while up to MaxRuns ingestion runs go on
ConcurrentNext ==
    \/ IngestBegin(Workbooks, UpdateDirectories)
    \/ IngestRow
    \/ IngestCommit
    \/ IngestRollback
    \/ out = Idle /\ GetAllCalls
    \/ StatsTotals
    \/ StatsStateDistribution
    \/ StatsModelDistribution
    \/ StatsEngineerWorkload

SpecConcurrent == AppInit /\ [][ConcurrentNext]_vars

-----------------------------------------------------------------------------
(* C21: a batch is applied as a whole                                       *)

\* a read is served in this step
C21_Read == out = Idle /\ out'.op = "get_all_calls"

C21_Seen == {out'.rows[i] : i \in DOMAIN out'.rows}

C21_Rows(table) == {table[i] : i \in DOMAIN table}

\* C21: a read beside an ingestion run sees the table as it was before the
\* batch or with every row of the batch applied, never some of its rows
\* without the others; a read after the run has completed sees every row of
\* the batch.
C21_BatchAtomicForReaders ==
    [][(C21_Read /\ txn # NoTxn) =>
          /\ C21_Seen = C21_Rows(txn.before) \/ C21_Rows(txn.batch) \subseteq C21_Seen
          /\ txn.state = "committed" => C21_Rows(txn.batch) \subseteq C21_Seen]_vars

\* what does hold: a read sees the table as last committed, never the rows of
\* an open or rolled-back transaction, and after a full load (upsert) every
\* row of the batch
C21_ReadsSeeCommittedTable ==
    [][(C21_Read /\ txn # NoTxn) =>
          /\ C21_Seen = C21_Rows(IF txn.state = "committed" THEN txn.table
                                 ELSE txn.before)
          /\ (txn.state = "committed" /\ txn.conflict_mode = "upsert") =>
                 C21_Rows(txn.batch) \subseteq C21_Seen]_vars

-----------------------------------------------------------------------------
(* C23: one get_stats response beside a commit                              *)

C23_Total(distribution) ==
    seq_sum([i \in DOMAIN distribution |-> distribution[i].value])

\* C23: in one get_stats response the counts of each of the three
\* distributions sum to at most total_calls, also when an ingestion commit
\* comes between its statements.
C23_DistributionsWithinTotal ==
    (out.op = "get_stats" /\ out.pc = "done") =>
        /\ C23_Total(out.state_distribution) <= out.stats.total_calls
        /\ C23_Total(out.model_distribution) <= out.stats.total_calls
        /\ C23_Total(out.engineer_workload) <= out.stats.total_calls

\* what does hold: every distribution counts at most the rows of the table
\* as committed when the response is complete
C23_DistributionsWithinFinalTable ==
    (out.op = "get_stats" /\ out.pc = "done") =>
        /\ out.stats.total_calls <= Len(store)
        /\ C23_Total(out.state_distribution) <= Len(store)
        /\ C23_Total(out.model_distribution) <= Len(store)
        /\ C23_Total(out.engineer_workload) <= Len(store)

-----------------------------------------------------------------------------
(* C5: every filter result is bounded                                       *)

C5_HasLimit(query) == query.sql[Len(query.sql)] = " LIMIT ?"

C5_Limit(query) == query.params[Len(query.params)].v

\* C5: every filter result, of the endpoint and of the dashboard, comes from a
\* statement limited to the caller's limit, or to 1000 when the caller gave
\* none, and never to more than 5000, and has at most that many rows; the
\* list of all calls is limited to 2000.
C5_EveryResultBounded ==
    /\ (out.op \in {"filter_calls", "dashboard"} /\ out.status = "ok") =>
          /\ C5_HasLimit(out.query)
          /\ C5_Limit(out.query) =
                (IF IsNull(out.request.limit) THEN FILTER_DEFAULT_LIMIT
                 ELSE Val(out.request.limit))
          /\ C5_Limit(out.query) <= FILTER_MAX_LIMIT
          /\ Len(out.rows) <= C5_Limit(out.query)
    /\ out.op = "get_all_calls" =>
          /\ C5_HasLimit(out.query)
          /\ C5_Limit(out.query) = ALL_CALLS_LIMIT
          /\ Len(out.rows) <= ALL_CALLS_LIMIT

\* what does hold: the endpoint and the list of all calls are bounded so
C5_ApiResultsBounded ==
    /\ (out.op = "filter_calls" /\ out.status = "ok") =>
          /\ C5_HasLimit(out.query)
          /\ C5_Limit(out.query) =
                (IF IsNull(out.request.limit) THEN FILTER_DEFAULT_LIMIT
                 ELSE Val(out.request.limit))
          /\ C5_Limit(out.query) <= FILTER_MAX_LIMIT
          /\ Len(out.rows) <= C5_Limit(out.query)
    /\ out.op = "get_all_calls" =>
          /\ C5_HasLimit(out.query)
          /\ C5_Limit(out.query) = ALL_CALLS_LIMIT
          /\ Len(out.rows) <= ALL_CALLS_LIMIT

-----------------------------------------------------------------------------
(* C8: invalidation of the metadata cache                                   *)

\* C8: the metadata cache can be invalidated: whenever a run has shown
\* options that are not those of the table, some operation is able to drop or
\* replace the cached value, so that the next getFilterMetadata() call
\* returns the options of the table.
C8_CacheCanBeInvalidated ==
    (out.op = "dashboard" /\ out.metadata # compute_metadata(store)) =>
        ENABLED (AppNext /\ cache' # cache)

\* what does hold: a call returns the metadata of the table as it was at the
\* first call, whatever has been ingested since
C8_FrozenAfterFirstUse ==
    [][~IsNull(cache) => cache' = cache]_vars

-----------------------------------------------------------------------------
(* Requests that exercise the statement text                                *)

TextKeys == {"state", "assigned_to"}

\* a single text (maybe empty), or a collection with or without blank entries
TextFrameValues ==
    {NoValue, Scalar(val_a), Scalar(val_b), Scalar(<<>>),
     Collection(<<Some(val_a)>>),
     Collection(<<Some(val_a), Some(val_b)>>),
     Collection(<<Some(val_b), Some(<<>>), NULL>>),
     Collection(<<NULL, Some(<<>>)>>)}

\* what a query string can carry
TextApiValues == {NoValue, Scalar(val_a), Scalar(val_b), Scalar(<<>>)}

\* dates and limit: none, some, all
TextTails ==
    {<<NULL, NULL, NULL>>, <<Some(1), NULL, NULL>>, <<NULL, Some(2), Some(1)>>,
     <<Some(1), Some(2), Some(2)>>, <<NULL, NULL, Some(1)>>, <<NULL, NULL, Some(2)>>,
     <<NULL, NULL, Some(0)>>}

TextRequests(values) ==
    {Request(Filters([k \in CriterionKeys |-> IF k \in TextKeys THEN c[k] ELSE NoValue],
                     t[1], t[2]),
             t[3]) :
        c \in [TextKeys -> values], t \in TextTails}

TextFrameRequests == TextRequests(TextFrameValues)

TextApiRequests == TextRequests(TextApiValues)

TextInit ==
    /\ store \in TablesUpTo(<<BaseRow>>, 1)
    /\ df = store
    /\ cache = NULL
    /\ out = Idle
    /\ txn = NoTxn

\* one statement-building call is made
TextNext ==
    \/ out = Idle /\ BuildServiceCallsQuery(TextApiRequests)
    \/ out = Idle /\ FetchFilteredCalls(TextFrameRequests)
    \/ out = Idle /\ GetStats
    \/ out = Idle /\ GetFilterMetadata

SpecText == TextInit /\ [][TextNext]_vars

-----------------------------------------------------------------------------
(* C7: the statement text does not depend on a supplied value               *)

C7_IsBuilderOp == out.op \in {"build_service_calls_query", "fetch_filtered_calls"}

C7_Requests(op) ==
    IF op = "fetch_filtered_calls" THEN TextFrameRequests ELSE TextApiRequests

C7_Build(op, request) ==
    IF op = "fetch_filtered_calls"
    THEN fetch_filtered_calls_query(request.filters, request.limit)
    ELSE build_service_calls_query(request.filters, request.limit)

\* the fixed text of the statements
C7_FixedText ==
    {"SELECT * FROM service_calls ", "WHERE ", " WHERE ", " AND ",
     " = ?", " IN (", "?", ", ", ")",
     "date(", ") >= ?", ") <= ?",
     "date(call_entry_datetime) >= ?", "date(call_entry_datetime) <= ?",
     " ORDER BY call_entry_datetime DESC", " ORDER BY ", " DESC", " LIMIT ?",
     "SELECT ", " AS label, COUNT(*) AS value FROM service_calls WHERE ",
     " IS NOT NULL AND TRIM(", ") <> '' GROUP BY ", " ORDER BY value DESC",
     "SELECT DISTINCT ", " FROM service_calls WHERE ", ") <> '' ORDER BY "}
    \cup {min_max_query.sql[i] : i \in DOMAIN min_max_query.sql}
    \cup {totals_query.sql[i] : i \in DOMAIN totals_query.sql}

\* the column names the program may write into a statement
C7_Columns ==
    {QT_FILTER_COLUMN_MAP[i][2] : i \in DOMAIN QT_FILTER_COLUMN_MAP}
    \cup {QB_FILTER_COLUMN_MAP[i][2] : i \in DOMAIN QB_FILTER_COLUMN_MAP}
    \cup {DATE_COLUMN}

\* the text is made of fixed text and enumerated column names only
C7_TextIsFixed(query) ==
    \A i \in DOMAIN query.sql : query.sql[i] \in C7_FixedText \cup C7_Columns

\* the number of placeholders of the text
C7_Placeholders(query) ==
    Cardinality({i \in DOMAIN query.sql :
                    query.sql[i] \in BindingFragments \cup {" LIMIT ?"}})

\* the texts a criterion binds
C7_Values(value) ==
    IF value.kind = "list"
    THEN LET kept == SelectSeq(value.v, LAMBDA e : e # NULL /\ e # Some(<<>>))
         IN  [i \in DOMAIN kept |-> Val(kept[i])]
    ELSE <<scalar_text(value)>>

\* the criterion a builder maps to the column
C7_KeyOf(op, column) ==
    LET map == IF op = "fetch_filtered_calls" THEN QT_FILTER_COLUMN_MAP
               ELSE QB_FILTER_COLUMN_MAP
    IN  map[CHOOSE i \in DOMAIN map : map[i][2] = column][1]

\* the values of the request in the order of the placeholders of the text
RECURSIVE C7_ParamsOf(_, _, _)
C7_ParamsOf(op, request, conditions) ==
    IF conditions = <<>>
    THEN IF IsNull(request.limit) THEN <<>> ELSE <<P_int(Val(request.limit))>>
    ELSE LET cond == Head(conditions)
             last == cond[Len(cond)]
             bound ==
                 IF last \in {") >= ?", "date(call_entry_datetime) >= ?"}
                 THEN <<P_date(Val(request.filters.start_date))>>
                 ELSE IF last \in {") <= ?", "date(call_entry_datetime) <= ?"}
                 THEN <<P_date(Val(request.filters.end_date))>>
                 ELSE LET values == C7_Values(request.filters[C7_KeyOf(op, cond[1])])
                      IN  [i \in DOMAIN values |-> P_text(values[i])]
         IN  bound \o C7_ParamsOf(op, request, Tail(conditions))

\* every value is bound, in placeholder order, and none is written into the
\* text; the statements of the distributions and of the metadata bind nothing
\* but a limit
C7_ValuesAreBound ==
    /\ (C7_IsBuilderOp /\ out.status = "ok") =>
          /\ C7_TextIsFixed(out.query)
          /\ C7_Placeholders(out.query) = Len(out.query.params)
          /\ out.query.params = C7_ParamsOf(out.op, out.request, out.query.conditions)
    /\ out.op \in {"get_stats", "get_filter_metadata"} =>
          \A i \in DOMAIN out.queries :
              /\ C7_TextIsFixed(out.queries[i])
              /\ C7_Placeholders(out.queries[i]) = Len(out.queries[i].params)
              /\ \A j \in DOMAIN out.queries[i].params : out.queries[i].params[j].t = "int"

\* the shape the claim names: which criteria are supplied, with how many
\* values each, and whether the dates and the limit are present
C7_ClaimedShape(request) ==
    [criteria |-> [k \in CriterionKeys |->
                      IF request.filters[k].kind = "none" THEN 0
                      ELSE IF request.filters[k].kind = "list"
                      THEN Len(request.filters[k].v)
                      ELSE 1],
     start |-> ~IsNull(request.filters.start_date),
     end |-> ~IsNull(request.filters.end_date),
     limit |-> ~IsNull(request.limit)]

C7_Form(op, key, value) ==
    IF op = "fetch_filtered_calls"
    THEN IF ~truthy(value) THEN [form |-> "absent", n |-> 0]
         ELSE IF value.kind = "list"
         THEN IF C4_Bound(value) = 0 THEN [form |-> "absent", n |-> 0]
              ELSE [form |-> "collection", n |-> C4_Bound(value)]
         ELSE [form |-> "single", n |-> 1]
    ELSE IF value.kind # "none"
            /\ \E i \in DOMAIN QB_FILTER_COLUMN_MAP : QB_FILTER_COLUMN_MAP[i][1] = key
         THEN [form |-> "single", n |-> 1]
         ELSE [form |-> "absent", n |-> 0]

C7_Shape(op, request) ==
    [criteria |-> [k \in CriterionKeys |-> C7_Form(op, k, request.filters[k])],
     start |-> ~IsNull(request.filters.start_date),
     end |-> ~IsNull(request.filters.end_date),
     limit |-> ~IsNull(request.limit)]

-----------------------------------------------------------------------------
(* C24: records without an entry time under a date bound                    *)

\* the dashboard with the date input holding two days, one day or none
EntryDashboardRun == DashboardRun({3}, {<<>>, <<1>>, <<1, 2>>}, {"state"}, 1)

EntryNext ==
    \/ out = Idle /\ FilterCalls(ApiRequests)
    \/ out = Idle /\ FetchFilteredCalls(FrameRequests)
    \/ out = Idle /\ EntryDashboardRun

SpecEntry == FilterInit /\ [][EntryNext]_vars

C24_HasEntry(rows) == \A i \in DOMAIN rows : ~IsNull(rows[i].call_entry_datetime)

C24_WithoutEntry(rows) ==
    {rows[i] : i \in {j \in DOMAIN rows : IsNull(rows[j].call_entry_datetime)}}

C24_IsFilter ==
    out.op \in {"filter_calls", "fetch_filtered_calls"} /\ out.status = "ok"

C24_DateSupplied ==
    \/ date_truthy(out.request.filters.start_date)
    \/ date_truthy(out.request.filters.end_date)

C24_Unconstrained ==
    /\ ~C24_DateSupplied
    /\ \A k \in CriterionKeys : out.request.filters[k] = NoValue

\* C24: whenever a start date or an end date is supplied the filter returns
\* no record whose call_entry_datetime is absent; the dashboard always
\* supplies both bounds, so no such record is in its record set or in the
\* KPIs computed from it; a filter with no date bound does return them.
C24_NoEntryExcluded ==
    /\ (C24_IsFilter /\ C24_DateSupplied) => C24_HasEntry(out.rows)
    /\ out.op = "dashboard" =>
          /\ Len(out.query.conditions) >= 2
          /\ C24_HasEntry(out.rows)
          /\ ~IsNull(out.kpis) =>
                Val(out.kpis).total_calls <= Len(store) - Cardinality(C24_WithoutEntry(store))
    /\ (C24_IsFilter /\ C24_Unconstrained) =>
          C24_WithoutEntry(store) \subseteq C24_WithoutEntry(out.rows)

\* what does hold: a date bound that reaches the statement excludes the
\* records without an entry time, on the API, in query_tools and on the
\* dashboard, and a request with no bound and no criterion returns them; the
\* dashboard supplies both bounds while its date input holds a day
C24_ExcludedUnderBound ==
    /\ ((C24_IsFilter \/ out.op = "dashboard") /\ C24_DateSupplied) =>
          C24_HasEntry(out.rows)
    /\ (out.op = "dashboard" /\ C24_DateSupplied) =>
          /\ date_truthy(out.request.filters.start_date)
          /\ date_truthy(out.request.filters.end_date)
          /\ Len(out.query.conditions) >= 2
    /\ ((C24_IsFilter \/ out.op = "dashboard") /\ C24_Unconstrained) =>
          C24_WithoutEntry(store) \subseteq C24_WithoutEntry(out.rows)

\* a dashboard run whose record set holds a record without an entry time
C24_DashboardShowsNoEntry ==
    /\ out.op = "dashboard"
    /\ ~C24_HasEntry(out.rows)
    /\ ~IsNull(out.kpis)

====
